---- MODULE Spec2Model ----
(***************************************************************************)
(* Conway's Game of Life on the GPU (Bouchet07/GameOfLife): the double-    *)
(* buffered step (shaders/compute.frag, Renderer::runSimulationStep), the  *)
(* camera (Renderer::pan / zoomAt / resetView), the render transform       *)
(* (shaders/draw.vert, draw.frag), the mouse-to-grid transform             *)
(* (Renderer::screenToTextureCoords, handleMouseDrawing) and the main loop *)
(* (GameOfLife::mainLoop, processInput, InputHandler callbacks).           *)
(*                                                                         *)
(* Numbers: the program computes the camera in IEEE floats.  The model     *)
(* computes the same expressions in exact rational arithmetic, a rational  *)
(* being a pair <<n, d>> with d > 0 in lowest terms; float rounding is not *)
(* modelled.  static_cast<int> is modelled as truncation toward zero.      *)
(***************************************************************************)
EXTENDS Integers, Sequences, FiniteSets, TLC

VARIABLES
    GRID_WIDTH, GRID_HEIGHT,      \* Renderer: grid dimensions
    textures,                     \* Renderer: the two cell buffers, index 0 and 1
    currentTextureIndex,          \* Renderer: index of the active buffer
    panX, panY, zoom, maxZoom,    \* Renderer: camera
    windowWidth, windowHeight,    \* Renderer: window size in pixels
    absIsInt,                     \* the build: unqualified abs resolves to ::abs(int)
    isPaused, limitSpeed,         \* GameOfLife: controller
    updatesPerSecond,             \* GameOfLife: steps per second under the speed limit
    timeOfLastUpdate,             \* GameOfLife: clock reading at the last step
    currentTime,                  \* GameOfLife::mainLoop: the last clock reading
    gridWidth, gridHeight,        \* GameOfLife: its copy of the grid dimensions
    mousePosition,                \* InputHandler: last cursor position
    isLeftMouseDrag,              \* InputHandler: left button held
    isRightMouseButtonPressed,    \* InputHandler: right button held
    lastMouseX, lastMouseY,       \* InputHandler: cursor position of the last event
    isGliderMode, gliderRotation, \* InputHandler: stamping mode
    keys, keysProcessed,          \* InputHandler: keys held / already handled
    pc,                           \* GameOfLife::mainLoop: position in the loop body
    grid,                         \* history: the grid of the single-buffer reference machine
    frame,                        \* what the last drawToScreen sampled
    lastOp, pre,                  \* history: last operation on the renderer, and the renderer before it
    nOps,                         \* history: camera and drawing operations so far
    twin                          \* a second renderer, for two-run comparisons

vars == <<GRID_WIDTH, GRID_HEIGHT, textures, currentTextureIndex, panX, panY, zoom,
          maxZoom, windowWidth, windowHeight, absIsInt, isPaused, limitSpeed,
          updatesPerSecond, timeOfLastUpdate, currentTime, gridWidth, gridHeight,
          mousePosition,
          isLeftMouseDrag, isRightMouseButtonPressed, lastMouseX, lastMouseY,
          isGliderMode, gliderRotation, keys, keysProcessed, pc, grid,
          frame, lastOp, pre, nOps, twin>>

-----------------------------------------------------------------------------
(* Bounds of the model *)

\* every 0/1 content is enumerated for grids of at most this many cells
MaxCells == 9
\* crafted patterns (block, corner pair) are placed on grids up to this side
MaxPatDim == 5
\* at most this many camera and drawing operations (zoomAt, pan, draw) in one behaviour
MaxOps == 2
\* the two-renderer comparison enumerates every content of grids of at most this many cells
MaxTwinCells == 6
\* at most this many keys held at once
MaxHeld == 1
\* the main loop of SpecCtl is followed until its clock passes this many sixtieths of a second
MaxTime == 4

-----------------------------------------------------------------------------
(* Exact rational arithmetic *)

RECURSIVE GCD(_, _)
GCD(a, b) == IF b = 0 THEN a ELSE GCD(b, a % b)

IAbs(n) == IF n < 0 THEN -n ELSE n

\* the rational n/d in lowest terms with a positive denominator
Q(n, d) ==
    LET s == IF d < 0 THEN -1 ELSE 1
        g == GCD(IAbs(n), IAbs(d))
    IN  <<(s * n) \div g, (s * d) \div g>>

QInt(n) == <<n, 1>>
QAdd(a, b) == LET g == GCD(a[2], b[2])
              IN  Q(a[1] * (b[2] \div g) + b[1] * (a[2] \div g), a[2] * (b[2] \div g))
QNeg(a) == <<-a[1], a[2]>>
QSub(a, b) == QAdd(a, QNeg(b))
QMul(a, b) == LET g1 == GCD(IAbs(a[1]), b[2])
                  g2 == GCD(IAbs(b[1]), a[2])
                  h1 == IF g1 = 0 THEN 1 ELSE g1
                  h2 == IF g2 = 0 THEN 1 ELSE g2
              IN  Q((a[1] \div h1) * (b[1] \div h2), (a[2] \div h2) * (b[2] \div h1))
QDiv(a, b) == QMul(a, Q(b[2], b[1]))
QLt(a, b) == a[1] * b[2] < b[1] * a[2]
QLe(a, b) == a[1] * b[2] <= b[1] * a[2]
QAbs(a) == <<IAbs(a[1]), a[2]>>
QMin(a, b) == IF QLt(b, a) THEN b ELSE a
QMax(a, b) == IF QLt(a, b) THEN b ELSE a
\* floor(a): \div rounds toward minus infinity
QFloor(a) == a[1] \div a[2]
\* static_cast<int>(a): truncation toward zero
QTrunc(a) == IF a[1] >= 0 THEN a[1] \div a[2] ELSE -((-a[1]) \div a[2])

-----------------------------------------------------------------------------
(* Grid buffers *)

Cells(W, H) == (0 .. W - 1) \X (0 .. H - 1)

\* a texel of a texture allocated by glTexImage2D(..., nullptr) and not written since
Unwritten == -1

RECURSIVE SumSeq(_)
SumSeq(s) == IF s = <<>> THEN 0 ELSE Head(s) + SumSeq(Tail(s))

\* (mutant of Repeat) GL_CLAMP_TO_EDGE instead of GL_REPEAT
ClampToEdge(i, n) == IF i < 0 THEN 0 ELSE IF i >= n THEN n - 1 ELSE i

\* GL_REPEAT: a texture coordinate outside [0,1) wraps to the opposite edge
Repeat(i, n) == i % n

\* (mutant of getCellState) a texel outside the texture reads as dead
getCellStateNoWrap(tex, W, H, x, y) ==
    IF x < 0 \/ x >= W \/ y < 0 \/ y >= H THEN 0 ELSE tex[<<x, y>>]

\* compute.frag getCellState at texel (x, y) of an W x H texture
getCellState(tex, W, H, x, y) == tex[<<Repeat(x, W), Repeat(y, H)>>]

\* the (dx, dy) pairs in the order of compute.frag's two loops (dy outer, dx inner)
Window3x3 == <<  <<-1, -1>>, <<0, -1>>, <<1, -1>>,
                 <<-1,  0>>, <<0,  0>>, <<1,  0>>,
                 <<-1,  1>>, <<0,  1>>, <<1,  1>>  >>

\* (mutant of computeFrag) the centre cell is not subtracted from the 3x3 sum
computeFragCentreCounted(tex, W, H, x, y) ==
    LET sum9 == SumSeq([i \in 1 .. 9 |->
                    getCellState(tex, W, H, x + Window3x3[i][1], y + Window3x3[i][2])])
        currentState == getCellState(tex, W, H, x, y)
    IN  IF currentState = 1 /\ (sum9 = 2 \/ sum9 = 3) THEN 1
        ELSE IF currentState = 0 /\ sum9 = 3 THEN 1
        ELSE 0

\* compute.frag main for the fragment of texel (x, y): the new state of the cell
computeFrag(tex, W, H, x, y) ==
    LET sum9 == SumSeq([i \in 1 .. 9 |->
                    getCellState(tex, W, H, x + Window3x3[i][1], y + Window3x3[i][2])])
        currentState == getCellState(tex, W, H, x, y)
        aliveNeighbors == sum9 - currentState
    IN  IF currentState = 1 /\ (aliveNeighbors = 2 \/ aliveNeighbors = 3) THEN 1
        ELSE IF currentState = 0 /\ aliveNeighbors = 3 THEN 1
        ELSE 0

\* (mutant of computeFragmentShaderSource) the loop does not skip the centre
computeFragmentShaderSourceNoSkip(tex, W, H, x, y) ==
    LET aliveNeighbors == SumSeq([i \in 1 .. 9 |->
                    getCellState(tex, W, H, x + Window3x3[i][1], y + Window3x3[i][2])])
        currentState == getCellState(tex, W, H, x, y)
    IN  IF currentState = 1 /\ (aliveNeighbors = 2 \/ aliveNeighbors = 3) THEN 1
        ELSE IF currentState = 0 /\ aliveNeighbors = 3 THEN 1
        ELSE 0

\* the compute shader of game_gpu.cpp for the fragment of texel (x, y): the loop
\* over the 3x3 window skips the centre (dx = 0 and dy = 0); the texture has the
\* same GL_REPEAT wrap and GL_NEAREST filter
computeFragmentShaderSource(tex, W, H, x, y) ==
    LET aliveNeighbors == SumSeq([i \in 1 .. 9 |->
                    IF Window3x3[i] = <<0, 0>> THEN 0
                    ELSE getCellState(tex, W, H, x + Window3x3[i][1],
                                      y + Window3x3[i][2])])
        currentState == getCellState(tex, W, H, x, y)
    IN  IF currentState = 1 /\ (aliveNeighbors = 2 \/ aliveNeighbors = 3) THEN 1
        ELSE IF currentState = 0 /\ aliveNeighbors = 3 THEN 1
        ELSE 0

\* game.cpp update_grid_logic: the grid after the update.  grid[y][x] is the
\* cell <<x, y>>; a cell is true (1) or false (0); the neighbour index is
\* (x + dx + GRID_WIDTH) % GRID_WIDTH
update_grid_logic(g, W, H) ==
    [c \in Cells(W, H) |->
        LET aliveNeighbors == SumSeq([i \in 1 .. 9 |->
                    IF Window3x3[i] = <<0, 0>> THEN 0
                    ELSE LET nx == (c[1] + Window3x3[i][1] + W) % W
                             ny == (c[2] + Window3x3[i][2] + H) % H
                         IN  IF g[<<nx, ny>>] # 0 THEN 1 ELSE 0])
        IN  IF g[c] # 0
            THEN (IF aliveNeighbors = 2 \/ aliveNeighbors = 3 THEN 1 ELSE 0)
            ELSE (IF aliveNeighbors = 3 THEN 1 ELSE 0)]

\* whether every texel of tex has been written
AllWritten(tex) == \A c \in DOMAIN tex : tex[c] # Unwritten

\* the outputs of one compute pass over the texture tex: one per fragment, every
\* fragment reading tex only.  Reading a texel that was never written yields an
\* indeterminate value, so the pass can then produce any 0/1 content.
ComputePass(tex, W, H) ==
    IF AllWritten(tex)
    THEN {[c \in Cells(W, H) |-> computeFrag(tex, W, H, c[1], c[2])]}
    ELSE [Cells(W, H) -> {0, 1}]

-----------------------------------------------------------------------------
(* The render transform: shaders/draw.vert and shaders/draw.frag.          *)
(* A camera c is a record of the uniforms and of the Renderer fields the    *)
(* transforms read: panX, panY, zoom, windowWidth, windowHeight,            *)
(* GRID_WIDTH, GRID_HEIGHT.  A point uv is a pair of rationals.             *)

Half == <<1, 2>>
One == <<1, 1>>
Zero == <<0, 1>>

windowAspectOf(c) == Q(c.windowWidth, c.windowHeight)
gridAspectOf(c) == Q(c.GRID_WIDTH, c.GRID_HEIGHT)

\* draw.vert / draw.frag: the FIT scale (full grid visible, with bars)
fitScale(c) ==
    IF QLt(gridAspectOf(c), windowAspectOf(c))
    THEN <<QDiv(gridAspectOf(c), windowAspectOf(c)), One>>
    ELSE <<One, QDiv(windowAspectOf(c), gridAspectOf(c))>>

\* GLSL clamp(x, 0, 1)
clamp01(x) == QMax(Zero, QMin(x, One))

\* GLSL smoothstep(edge0, edge1, x).  GLSL leaves the result undefined when
\* edge0 >= edge1; the shaders reach that case only with fitScale = (1,1), where
\* mix(fitScale, fillScale, t) is (1,1) for every t, so 0 stands for any t.
smoothstep(edge0, edge1, x) ==
    IF QLe(edge1, edge0) THEN Zero
    ELSE LET u == clamp01(QDiv(QSub(x, edge0), QSub(edge1, edge0)))
         IN  QMul(QMul(u, u), QSub(QInt(3), QMul(QInt(2), u)))

\* GLSL mix(a, b, t) = a*(1-t) + b*t
mix(a, b, t) == QAdd(QMul(a, QSub(One, t)), QMul(b, t))

transitionZoom(c) == QDiv(One, QMin(fitScale(c)[1], fitScale(c)[2]))

\* draw.vert / draw.frag: finalScale = mix(fitScale, fillScale, t)
finalScale(c) ==
    LET t == smoothstep(One, transitionZoom(c), c.zoom)
    IN  <<mix(fitScale(c)[1], One, t), mix(fitScale(c)[2], One, t)>>

\* draw.vert: v_texCoord of the fragment whose v_unscaledUv is uv
drawVert(c, uv) ==
    LET fs == finalScale(c)
        ux == QAdd(QMul(QSub(uv[1], Half), fs[1]), Half)
        uy == QAdd(QMul(QSub(uv[2], Half), fs[2]), Half)
    IN  <<QAdd(QDiv(ux, c.zoom), c.panX), QAdd(QDiv(uy, c.zoom), c.panY)>>

\* draw.frag: isInBars
isInBars(c, uv) ==
    LET fs == finalScale(c)
    IN  \/ QLt(QMul(fs[1], Half), QAbs(QSub(uv[1], Half)))
        \/ QLt(QMul(fs[2], Half), QAbs(QSub(uv[2], Half)))

\* draw.frag: isOutOfBounds
isOutOfBounds(tc) ==
    \/ QLt(tc[1], Zero) \/ QLt(One, tc[1]) \/ QLt(tc[2], Zero) \/ QLt(One, tc[2])

\* texture() with GL_NEAREST and GL_REPEAT: the texel a coordinate samples
texelOf(tc, W, H) ==
    <<Repeat(QFloor(QMul(tc[1], QInt(W))), W), Repeat(QFloor(QMul(tc[2], QInt(H))), H)>>

\* draw.frag main: the fragment at v_unscaledUv = uv shows the bar colour
\* (shown FALSE) or the texel `cell` of the active texture
drawFrag(c, uv) ==
    LET tc == drawVert(c, uv)
    IN  IF isInBars(c, uv) \/ isOutOfBounds(tc)
        THEN [shown |-> FALSE, cell |-> <<-1, -1>>]
        ELSE [shown |-> TRUE, cell |-> texelOf(tc, c.GRID_WIDTH, c.GRID_HEIGHT)]

\* the v_unscaledUv of the fragment under the cursor position (screenX, screenY):
\* cursor y grows downwards, v_unscaledUv.y upwards
unscaledUvOf(c, screenX, screenY) ==
    <<QDiv(screenX, QInt(c.windowWidth)),
      QSub(One, QDiv(screenY, QInt(c.windowHeight)))>>

-----------------------------------------------------------------------------
(* Renderer (unnamed/part_002, the revision GameOfLife.cpp links against:   *)
(* it is the one that defines resizeGrid and maxZoom).  A renderer r is the *)
(* record of the Renderer's fields; each method is an operator from r to    *)
(* the renderer it leaves (or to the set of renderers it can leave).        *)

\* Renderer::initTextures: two textures of the grid's size, allocated without data
initTextures(r) ==
    [r EXCEPT !.textures =
        [i \in 0 .. 1 |-> [c \in Cells(r.GRID_WIDTH, r.GRID_HEIGHT) |-> Unwritten]]]

\* Renderer::resetView
resetView(r) == [r EXCEPT !.panX = Zero, !.panY = Zero, !.zoom = One]

\* (mutant of onWindowResize) the camera is reset with the window
onWindowResizeResetView(r, newWidth, newHeight) ==
    resetView([r EXCEPT !.windowWidth = newWidth, !.windowHeight = newHeight])

\* Renderer::onWindowResize
onWindowResize(r, newWidth, newHeight) ==
    [r EXCEPT !.windowWidth = newWidth, !.windowHeight = newHeight]

\* Renderer::pan
pan(r, screenDx, screenDy) ==
    [r EXCEPT !.panX = QSub(r.panX, QDiv(screenDx, QMul(QInt(r.windowWidth), r.zoom))),
              !.panY = QAdd(r.panY, QDiv(screenDy, QMul(QInt(r.windowHeight), r.zoom)))]

\* the lower zoom limit of Renderer::zoomAt: 0.1f
MinZoom == <<1, 10>>

\* Renderer::zoomAt
zoomAt(r, screenX, screenY, zoomFactor) ==
    LET invertedY == QSub(QInt(r.windowHeight), screenY)
        ux == QDiv(screenX, QInt(r.windowWidth))
        uy == QDiv(invertedY, QInt(r.windowHeight))
        texX_before == QAdd(QDiv(ux, r.zoom), r.panX)
        texY_before == QAdd(QDiv(uy, r.zoom), r.panY)
        z1 == QMul(r.zoom, zoomFactor)
        z2 == QMax(MinZoom, QMin(z1, r.maxZoom))
        texX_after == QAdd(QDiv(ux, z2), r.panX)
        texY_after == QAdd(QDiv(uy, z2), r.panY)
    IN  [r EXCEPT !.zoom = z2,
                  !.panX = QAdd(r.panX, QSub(texX_before, texX_after)),
                  !.panY = QAdd(r.panY, QSub(texY_before, texY_after))]

\* the coordinate pair screenToTextureCoords returns for a click in the bars
Invalid == <<QInt(-1), QInt(-1)>>

\* the unqualified abs(float) of screenToTextureCoords.  The file includes no
\* header that is required to declare a floating-point ::abs; where only
\* ::abs(int) is visible (libstdc++) the argument is converted to int first,
\* where the float overload is visible (MSVC) it is the absolute value.
abs(r, x) == IF r.absIsInt THEN QInt(IAbs(QTrunc(x))) ELSE QAbs(x)

\* Renderer::screenToTextureCoords
screenToTextureCoords(r, screenX, screenY) ==
    LET normX == QSub(QMul(QDiv(screenX, QInt(r.windowWidth)), QInt(2)), One)
        normY == QSub(One, QMul(QDiv(screenY, QInt(r.windowHeight)), QInt(2)))
        windowAspect == Q(r.windowWidth, r.windowHeight)
        gridAspect == Q(r.GRID_WIDTH, r.GRID_HEIGHT)
        scaleX == IF QLt(gridAspect, windowAspect) THEN QDiv(gridAspect, windowAspect) ELSE One
        scaleY == IF QLt(gridAspect, windowAspect) THEN One ELSE QDiv(windowAspect, gridAspect)
    IN  IF QLt(abs(r, scaleX), abs(r, normX)) \/ QLt(abs(r, scaleY), abs(r, normY))
        THEN Invalid
        ELSE LET unscaledX == QDiv(normX, scaleX)
                 unscaledY == QDiv(normY, scaleY)
                 quad_uv_x == QDiv(QAdd(unscaledX, One), QInt(2))
                 quad_uv_y == QDiv(QAdd(unscaledY, One), QInt(2))
             IN  <<QAdd(QDiv(quad_uv_x, r.zoom), r.panX),
                   QAdd(QDiv(quad_uv_y, r.zoom), r.panY)>>

\* (mutant of writeWhite) the texel is written to the texture that is not active
writeWhiteInactive(r, x, y) ==
    [r EXCEPT !.textures[1 - r.currentTextureIndex][<<x, y>>] = 1]

\* glTexSubImage2D(..., x, y, 1, 1, ..., &white) on the active texture
writeWhite(r, x, y) ==
    [r EXCEPT !.textures[r.currentTextureIndex][<<x, y>>] = 1]

\* the glider of handleMouseDrawing
gliderPattern == << <<1, 0>>, <<2, 1>>, <<0, 2>>, <<1, 2>>, <<2, 2>> >>

\* (mutant of rotateOffset) the quarter turns taken clockwise
rotateOffsetClockwise(dx, dy, rotation) ==
    CASE rotation = 1 -> <<dy, -dx>>
      [] rotation = 2 -> <<-dx, -dy>>
      [] rotation = 3 -> <<-dy, dx>>
      [] OTHER -> <<dx, dy>>

\* the switch of Renderer::drawPattern: the offset (dx, dy) rotated
rotateOffset(dx, dy, rotation) ==
    CASE rotation = 1 -> <<-dy, dx>>
      [] rotation = 2 -> <<-dx, -dy>>
      [] rotation = 3 -> <<dy, -dx>>
      [] OTHER -> <<dx, dy>>

\* Renderer::drawPattern: the offsets of pattern from its i-th on, written in order
RECURSIVE drawPatternFrom(_, _, _, _, _, _)
drawPatternFrom(r, centerX, centerY, pattern, rotation, i) ==
    IF i > Len(pattern) THEN r
    ELSE LET rot == rotateOffset(pattern[i][1], pattern[i][2], rotation)
             finalX == centerX + rot[1]
             finalY == centerY + rot[2]
             inside == /\ finalX >= 0 /\ finalX < r.GRID_WIDTH
                       /\ finalY >= 0 /\ finalY < r.GRID_HEIGHT
             r1 == IF inside THEN writeWhite(r, finalX, finalY) ELSE r
         IN  drawPatternFrom(r1, centerX, centerY, pattern, rotation, i + 1)

\* (mutant of drawPattern) an offset that leaves the grid wraps to the other side
drawPatternWrapped(r, centerX, centerY, pattern, rotation) ==
    LET wrapped == {<<Repeat(centerX + rotateOffset(pattern[i][1], pattern[i][2], rotation)[1],
                             r.GRID_WIDTH),
                      Repeat(centerY + rotateOffset(pattern[i][1], pattern[i][2], rotation)[2],
                             r.GRID_HEIGHT)>> : i \in 1 .. Len(pattern)}
    IN  [r EXCEPT !.textures[r.currentTextureIndex] =
            [c \in DOMAIN @ |-> IF c \in wrapped THEN 1 ELSE @[c]]]

drawPattern(r, centerX, centerY, pattern, rotation) ==
    drawPatternFrom(r, centerX, centerY, pattern, rotation, 1)

\* Renderer::handleMouseDrawing: the cell (gridX, gridY) the cursor selects, when
\* the click is not rejected
mouseRejected(r, mousePos) ==
    LET t == screenToTextureCoords(r, mousePos[1], mousePos[2])
    IN  QLt(t[1], Zero) \/ QLt(One, t[1]) \/ QLt(t[2], Zero) \/ QLt(One, t[2])

mouseGridCell(r, mousePos) ==
    LET t == screenToTextureCoords(r, mousePos[1], mousePos[2])
    IN  <<QTrunc(QMul(t[1], QInt(r.GRID_WIDTH))), QTrunc(QMul(t[2], QInt(r.GRID_HEIGHT)))>>

\* Renderer::handleMouseDrawing
handleMouseDrawing(r, leftDrag, mousePos, gliderMode, rotation) ==
    IF ~leftDrag THEN r
    ELSE IF mouseRejected(r, mousePos) THEN r
    ELSE LET g == mouseGridCell(r, mousePos)
         IN  IF gliderMode THEN drawPattern(r, g[1], g[2], gliderPattern, rotation)
             ELSE IF /\ g[1] >= 0 /\ g[1] < r.GRID_WIDTH
                     /\ g[2] >= 0 /\ g[2] < r.GRID_HEIGHT
                  THEN writeWhite(r, g[1], g[2])
                  ELSE r

\* the data vectors randomizeBoard can draw for a W x H grid: every 0/1 content
\* of a grid of at most MaxCells cells, three sample contents of a larger one
RandomData(W, H) ==
    IF W * H <= MaxCells THEN [Cells(W, H) -> {0, 1}]
    ELSE { [c \in Cells(W, H) |-> 0],
           [c \in Cells(W, H) |-> 1],
           [c \in Cells(W, H) |-> (c[1] + c[2]) % 2] }

\* (mutant of randomizeWith) the vector is drawn but not uploaded
randomizeWithNoUpload(r, data) == r

\* Renderer::randomizeBoard with the drawn vector data
randomizeWith(r, data) == [r EXCEPT !.textures[r.currentTextureIndex] = data]

\* Renderer::randomizeBoard: the renderers it can leave
randomizeBoard(r) ==
    {randomizeWith(r, data) : data \in RandomData(r.GRID_WIDTH, r.GRID_HEIGHT)}

\* (mutant of clearBoard) the framebuffer of the texture that is not active is cleared
clearBoardInactive(r) ==
    [r EXCEPT !.textures[1 - r.currentTextureIndex] =
        [c \in Cells(r.GRID_WIDTH, r.GRID_HEIGHT) |-> 0]]

\* Renderer::clearBoard
clearBoard(r) ==
    [r EXCEPT !.textures[r.currentTextureIndex] =
        [c \in Cells(r.GRID_WIDTH, r.GRID_HEIGHT) |-> 0]]

\* (mutant of stepWith) the pass renders into the active texture's framebuffer
stepInPlaceWith(r, out) ==
    [r EXCEPT !.textures[r.currentTextureIndex] = out,
              !.currentTextureIndex = 1 - r.currentTextureIndex]

\* Renderer::runSimulationStep with the pass output out
stepWith(r, out) ==
    [r EXCEPT !.textures[1 - r.currentTextureIndex] = out,
              !.currentTextureIndex = 1 - r.currentTextureIndex]

\* (mutant of runSimulationStep) the pass samples textures[0] whatever the index
runSimulationStepFromZero(r) ==
    {stepWith(r, out) : out \in ComputePass(r.textures[0], r.GRID_WIDTH, r.GRID_HEIGHT)}

\* Renderer::runSimulationStep: the compute pass reads textures[currentTextureIndex]
\* and renders into fbo[1 - currentTextureIndex]; then the index flips
runSimulationStep(r) ==
    {stepWith(r, out) :
        out \in ComputePass(r.textures[r.currentTextureIndex], r.GRID_WIDTH, r.GRID_HEIGHT)}

\* (mutant of drawToScreen) the draw pass samples the inactive texture
drawToScreenInactive(r) == r.textures[1 - r.currentTextureIndex]

\* Renderer::drawToScreen: the texture the draw pass samples
drawToScreen(r) == r.textures[r.currentTextureIndex]

\* maxZoom as the constructor and resizeGrid compute it: max(W, H) / 10.0f
maxZoomFor(W, H) == Q(IF W > H THEN W ELSE H, 10)

\* (mutant of resizeGrid) the camera is left where it was
resizeGridKeepView(r, newWidth, newHeight) ==
    LET r1 == initTextures([r EXCEPT !.GRID_WIDTH = newWidth, !.GRID_HEIGHT = newHeight])
    IN  { [r2 EXCEPT !.maxZoom = maxZoomFor(newWidth, newHeight)] :
            r2 \in randomizeBoard(r1) }

\* Renderer::resizeGrid
resizeGrid(r, newWidth, newHeight) ==
    LET r1 == initTextures([r EXCEPT !.GRID_WIDTH = newWidth, !.GRID_HEIGHT = newHeight])
    IN  { resetView([r2 EXCEPT !.maxZoom = maxZoomFor(newWidth, newHeight)]) :
            r2 \in randomizeBoard(r1) }

\* Renderer::resizeGrid when initFramebuffers throws (the framebuffer is not
\* complete): the dimensions are the new ones, the old textures and framebuffers
\* are deleted, the new textures are allocated and unwritten, and randomizeBoard,
\* the maxZoom assignment and resetView are not reached
resizeGridThrows(r, newWidth, newHeight) ==
    initTextures([r EXCEPT !.GRID_WIDTH = newWidth, !.GRID_HEIGHT = newHeight])

\* the same renderer in the build whose abs is ::abs(int) (b TRUE) or not
Build(r, b) == [r EXCEPT !.absIsInt = b]

\* Renderer::Renderer (in the build with a floating-point abs; see Build).  The
\* constructor does not assign currentTextureIndex; it starts at 0, the member's
\* initial value (int currentTextureIndex = 0 in game_gpu.cpp).
NewRenderer(winWidth, winHeight, gridW, gridH) ==
    LET r0 == [GRID_WIDTH |-> gridW, GRID_HEIGHT |-> gridH,
               textures |-> <<>>, currentTextureIndex |-> 0,
               panX |-> Zero, panY |-> Zero, zoom |-> One, maxZoom |-> One,
               windowWidth |-> winWidth, windowHeight |-> winHeight,
               absIsInt |-> FALSE]
    IN  [resetView(initTextures(r0)) EXCEPT !.maxZoom = maxZoomFor(gridW, gridH)]

-----------------------------------------------------------------------------
(* The state as a renderer record, and the parts of the state *)

Rend == [GRID_WIDTH |-> GRID_WIDTH, GRID_HEIGHT |-> GRID_HEIGHT,
         textures |-> textures, currentTextureIndex |-> currentTextureIndex,
         panX |-> panX, panY |-> panY, zoom |-> zoom, maxZoom |-> maxZoom,
         windowWidth |-> windowWidth, windowHeight |-> windowHeight,
         absIsInt |-> absIsInt]

SetRend(r) ==
    /\ GRID_WIDTH' = r.GRID_WIDTH
    /\ GRID_HEIGHT' = r.GRID_HEIGHT
    /\ textures' = r.textures
    /\ currentTextureIndex' = r.currentTextureIndex
    /\ panX' = r.panX
    /\ panY' = r.panY
    /\ zoom' = r.zoom
    /\ maxZoom' = r.maxZoom
    /\ windowWidth' = r.windowWidth
    /\ windowHeight' = r.windowHeight
    /\ absIsInt' = r.absIsInt

rendVars == <<GRID_WIDTH, GRID_HEIGHT, textures, currentTextureIndex, panX, panY, zoom,
              maxZoom, windowWidth, windowHeight, absIsInt>>
gameVars == <<updatesPerSecond, timeOfLastUpdate, currentTime, gridWidth, gridHeight>>
ctlVars == <<isPaused, limitSpeed, gameVars>>
inputVars == <<mousePosition, isLeftMouseDrag, isRightMouseButtonPressed, lastMouseX,
               lastMouseY, isGliderMode, gliderRotation, keys, keysProcessed>>
loopVars == <<pc, grid, frame>>

\* the history of an operation: its name, its arguments, the renderer before it
Hist(name, args) ==
    /\ lastOp' = [name |-> name, args |-> args]
    /\ pre' = Rend

\* InputHandler::toggleGliderMode
toggleGliderMode(mode) == ~mode

\* (mutant of rotateGlider) the rotation goes back by a quarter turn
rotateGliderBack(mode, rotation) == IF mode THEN (rotation + 3) % 4 ELSE rotation

\* InputHandler::rotateGlider
rotateGlider(mode, rotation) == IF mode THEN (rotation + 1) % 4 ELSE rotation

\* the GameOfLife object with its renderer and the stamping mode of its input
\* handler; threw: an exception is propagating out of processInput
Game == [isPaused |-> isPaused, limitSpeed |-> limitSpeed,
         updatesPerSecond |-> updatesPerSecond, timeOfLastUpdate |-> timeOfLastUpdate,
         gridWidth |-> gridWidth, gridHeight |-> gridHeight, renderer |-> Rend,
         isGliderMode |-> isGliderMode, gliderRotation |-> gliderRotation,
         threw |-> FALSE]

SetGame(g) ==
    /\ isPaused' = g.isPaused
    /\ limitSpeed' = g.limitSpeed
    /\ updatesPerSecond' = g.updatesPerSecond
    /\ timeOfLastUpdate' = g.timeOfLastUpdate
    /\ gridWidth' = g.gridWidth
    /\ gridHeight' = g.gridHeight
    /\ SetRend(g.renderer)
    /\ isGliderMode' = g.isGliderMode
    /\ gliderRotation' = g.gliderRotation

\* (mutant of promptAndSetSpeed) the new speed is stored without the validation
promptAndSetSpeedUnchecked(g, inp) ==
    [g EXCEPT !.isPaused = TRUE, !.updatesPerSecond = inp.value, !.limitSpeed = TRUE]

\* GameOfLife::promptAndSetSpeed; inp is what std::cin >> newSpeed gives: the
\* stream state and the value read
promptAndSetSpeed(g, inp) ==
    LET g1 == [g EXCEPT !.isPaused = TRUE]
    IN  IF inp.good /\ QLt(Zero, inp.value)
        THEN [g1 EXCEPT !.updatesPerSecond = inp.value, !.limitSpeed = TRUE]
        ELSE g1

\* (mutant of promptAndResizeGrid) the prompt does not pause the simulation
promptAndResizeGridRunning(g, inp, complete) ==
    IF inp.good /\ inp.width > 0 /\ inp.height > 0
    THEN {[g EXCEPT !.gridWidth = inp.width, !.gridHeight = inp.height, !.renderer = r] :
            r \in resizeGrid(g.renderer, inp.width, inp.height)}
    ELSE {g}

\* GameOfLife::promptAndResizeGrid; inp is what std::cin >> newWidth >> newHeight
\* gives, complete is whether the new framebuffer is complete
promptAndResizeGrid(g, inp, complete) ==
    LET g1 == [g EXCEPT !.isPaused = TRUE]
    IN  IF inp.good /\ inp.width > 0 /\ inp.height > 0
        THEN LET g2 == [g1 EXCEPT !.gridWidth = inp.width, !.gridHeight = inp.height]
             IN  IF complete
                 THEN {[g2 EXCEPT !.renderer = r] :
                         r \in resizeGrid(g.renderer, inp.width, inp.height)}
                 ELSE {[g2 EXCEPT !.renderer =
                                      resizeGridThrows(g.renderer, inp.width, inp.height),
                                  !.threw = TRUE]}
        ELSE {g1}

\* GameOfLife::processInput.  pressed: the keys for which wasKeyPressed is true;
\* speedInp, resizeInp, complete: what the two prompts read and whether the
\* resized framebuffer is complete; leftDrag, mousePos: the state of the mouse
processInput(g, pressed, speedInp, resizeInp, complete, leftDrag, mousePos) ==
    LET g1 == IF "K" \in pressed THEN [g EXCEPT !.limitSpeed = ~g.limitSpeed] ELSE g
        g2 == IF "UP" \in pressed
              THEN [g1 EXCEPT !.updatesPerSecond = QMul(g1.updatesPerSecond, Q(3, 2))]
              ELSE g1
        g3 == IF "DOWN" \in pressed
              THEN [g2 EXCEPT !.updatesPerSecond = QDiv(g2.updatesPerSecond, Q(3, 2))]
              ELSE g2
        g4 == IF "S" \in pressed THEN promptAndSetSpeed(g3, speedInp) ELSE g3
        after5 == IF "N" \in pressed THEN promptAndResizeGrid(g4, resizeInp, complete)
                  ELSE {g4}
        rest(g5) ==
            LET g6 == IF "SPACE" \in pressed THEN [g5 EXCEPT !.isPaused = ~g5.isPaused]
                      ELSE g5
                g7 == IF "C" \in pressed THEN [g6 EXCEPT !.renderer = clearBoard(g6.renderer)]
                      ELSE g6
                after8 == IF "R" \in pressed
                          THEN {[g7 EXCEPT !.renderer = r] : r \in randomizeBoard(g7.renderer)}
                          ELSE {g7}
                tail(g8) ==
                    LET glider == IF "G" \in pressed THEN toggleGliderMode(g8.isGliderMode)
                                  ELSE g8.isGliderMode
                        rot == IF "T" \in pressed THEN rotateGlider(glider, g8.gliderRotation)
                               ELSE g8.gliderRotation
                    IN  [g8 EXCEPT !.isGliderMode = glider, !.gliderRotation = rot,
                                   !.renderer = handleMouseDrawing(g8.renderer, leftDrag,
                                                                   mousePos, glider, rot)]
            IN  {tail(g8) : g8 \in after8}
    IN  UNION {IF g5.threw THEN {g5} ELSE rest(g5) : g5 \in after5}

\* (mutant of stepDue) the step needs more than the interval to have elapsed
stepDueStrict(g, now) ==
    /\ ~g.isPaused
    /\ \/ ~g.limitSpeed
       \/ QLt(QDiv(One, g.updatesPerSecond), QSub(now, g.timeOfLastUpdate))

\* GameOfLife::mainLoop: the condition under which the iteration that reads the
\* clock as now runs a step
stepDue(g, now) ==
    /\ ~g.isPaused
    /\ \/ ~g.limitSpeed
       \/ QLe(QDiv(One, g.updatesPerSecond), QSub(now, g.timeOfLastUpdate))

\* GameOfLife.h and InputHandler.h: the member initialisers
InitMembers ==
    /\ isPaused = FALSE
    /\ limitSpeed = TRUE
    /\ updatesPerSecond = QInt(30)
    /\ timeOfLastUpdate = Zero
    /\ currentTime = Zero
    /\ gridWidth = GRID_WIDTH
    /\ gridHeight = GRID_HEIGHT
    /\ mousePosition = <<Zero, Zero>>
    /\ isLeftMouseDrag = FALSE
    /\ isRightMouseButtonPressed = FALSE
    /\ lastMouseX = Zero
    /\ lastMouseY = Zero
    /\ isGliderMode = FALSE
    /\ gliderRotation = 0
    /\ keys = {}
    /\ keysProcessed = {}

\* the window main.cpp opens, scaled down to a few pixels
StepWindow == <<4, 4>>

-----------------------------------------------------------------------------
(* SpecStep: the step as a function of the grid content.  The state after   *)
(* Renderer::Renderer and GameOfLife::run's randomizeBoard, for every grid  *)
(* of at most MaxCells cells and every content of it, and for crafted       *)
(* contents of larger grids; then steps.                                    *)

\* the 2x2 block whose lower-left cell is (x, y), wrapped
BlockAt(W, H, x, y) ==
    [c \in Cells(W, H) |->
        IF c \in {<<x, y>>, <<(x + 1) % W, y>>, <<x, (y + 1) % H>>, <<(x + 1) % W, (y + 1) % H>>}
        THEN 1 ELSE 0]

\* the grids every content of which is enumerated
SmallGrids == {g \in (1 .. MaxCells) \X (1 .. MaxCells) : g[1] * g[2] <= MaxCells}
\* the larger grids, on which blocks are placed
PatternGrids == {g \in (4 .. MaxPatDim) \X (4 .. MaxPatDim) : g[1] * g[2] > MaxCells}

StepData(W, H) ==
    IF W * H <= MaxCells THEN [Cells(W, H) -> {0, 1}]
    ELSE {BlockAt(W, H, c[1], c[2]) : c \in Cells(W, H)}

\* the initial state holds the renderer r
SetInit(r) ==
    /\ GRID_WIDTH = r.GRID_WIDTH
    /\ GRID_HEIGHT = r.GRID_HEIGHT
    /\ textures = r.textures
    /\ currentTextureIndex = r.currentTextureIndex
    /\ panX = r.panX
    /\ panY = r.panY
    /\ zoom = r.zoom
    /\ maxZoom = r.maxZoom
    /\ windowWidth = r.windowWidth
    /\ windowHeight = r.windowHeight
    /\ absIsInt = r.absIsInt
    /\ pre = r

InitStep ==
    /\ \E g \in SmallGrids \cup PatternGrids : \E data \in StepData(g[1], g[2]) :
          SetInit(randomizeWith(NewRenderer(StepWindow[1], StepWindow[2], g[1], g[2]), data))
    /\ InitMembers
    /\ pc = "api"
    /\ grid = <<>>
    /\ frame = <<>>
    /\ lastOp = [name |-> "randomizeBoard", args |-> <<>>]
    /\ nOps = 0
    /\ twin = <<>>

\* Renderer::runSimulationStep, called on the renderer
Step ==
    /\ \E r \in runSimulationStep(Rend) : SetRend(r)
    /\ Hist("runSimulationStep", <<>>)
    /\ UNCHANGED <<ctlVars, inputVars, loopVars, nOps, twin>>

NextStep == Step

SpecStep == InitStep /\ [][NextStep]_vars

-----------------------------------------------------------------------------
(* The automaton rule as the specification states it *)

MooreOffsets == ((-1 .. 1) \X (-1 .. 1)) \ {<<0, 0>>}

\* number of the 8 Moore offsets, taken modulo W and H, that hold a live cell
LiveNeighbours(tex, W, H, x, y) ==
    Cardinality({o \in MooreOffsets : tex[<<(x + o[1]) % W, (y + o[2]) % H>>] = 1})

LifeRule(tex, W, H, x, y) ==
    LET n == LiveNeighbours(tex, W, H, x, y)
    IN  IF tex[<<x, y>>] = 1 THEN (IF n = 2 \/ n = 3 THEN 1 ELSE 0)
        ELSE (IF n = 3 THEN 1 ELSE 0)

StepDone == lastOp.name = "runSimulationStep"
PreActive == pre.textures[pre.currentTextureIndex]
Active == textures[currentTextureIndex]

\* C1: after one step every cell (x,y) of the new generation is alive exactly when
\* it was alive with 2 or 3 live neighbours or dead with exactly 3, the neighbours
\* being the 8 Moore offsets modulo W and H (edges and corners wrap).
C1_StepRule ==
    StepDone =>
        \A c \in Cells(GRID_WIDTH, GRID_HEIGHT) :
            Active[c] = LifeRule(PreActive, GRID_WIDTH, GRID_HEIGHT, c[1], c[2])

\* a 3x3 grid whose only live cells were (2,2), (1,0) and (0,1): cell (0,0) is born,
\* which needs the corner (W-1,H-1) to count as its neighbour
C1_Witness ==
    /\ StepDone
    /\ GRID_WIDTH = 3 /\ GRID_HEIGHT = 3
    /\ PreActive = [c \in Cells(3, 3) |-> IF c \in {<<2, 2>>, <<1, 0>>, <<0, 1>>} THEN 1 ELSE 0]
    /\ Active[<<0, 0>>] = 1

\* C8: a step leaves the buffer that held generation N as it was, writes only the
\* other buffer, and that buffer is the image of the unmodified generation N.
C8_StepFrame ==
    StepDone =>
        /\ currentTextureIndex = 1 - pre.currentTextureIndex
        /\ textures[pre.currentTextureIndex] = PreActive
        /\ \A c \in Cells(GRID_WIDTH, GRID_HEIGHT) :
              Active[c] = LifeRule(textures[1 - currentTextureIndex],
                                   GRID_WIDTH, GRID_HEIGHT, c[1], c[2])

\* a second step (index back at 0) that changed the content
C8_Witness ==
    /\ StepDone
    /\ currentTextureIndex = 0
    /\ Active # textures[1]
    /\ AllWritten(textures[1])

\* C10: on a grid with W >= 4 and H >= 4 whose only live cells are a 2x2 block, at
\* any position (also across the wrapped edges), one step changes nothing.
C10_BlockStill ==
    (/\ StepDone
     /\ GRID_WIDTH >= 4 /\ GRID_HEIGHT >= 4
     /\ \E c \in Cells(GRID_WIDTH, GRID_HEIGHT) :
           PreActive = BlockAt(GRID_WIDTH, GRID_HEIGHT, c[1], c[2]))
    => Active = PreActive

\* the block over the corner of a 5x4 grid: cells (4,3), (0,3), (4,0), (0,0)
C10_Witness ==
    /\ StepDone
    /\ GRID_WIDTH = 5 /\ GRID_HEIGHT = 4
    /\ PreActive = BlockAt(5, 4, 4, 3)
    /\ Active[<<0, 0>>] = 1

-----------------------------------------------------------------------------
(* SpecTwin: two renderers whose active buffers hold the same content and   *)
(* which differ in everything else a step could wrongly read.  The first    *)
(* was constructed and randomized (active index 0).  The twin was           *)
(* constructed for another window, randomized, stepped once (active index   *)
(* 1, a previous generation left at index 0) and then randomized to the     *)
(* same content; its camera is moved and the controller is paused and       *)
(* resumed between the steps, which both renderers take together.           *)

TwinWindow == <<8, 4>>

\* the contents the twin held before it was stepped and re-randomized
TwinFirstData(W, H) == {[c \in Cells(W, H) |-> 0], [c \in Cells(W, H) |-> 1]}

TwinGrids == {g \in SmallGrids : g[1] * g[2] <= MaxTwinCells}

InitTwin ==
    /\ \E g \in TwinGrids : \E data \in StepData(g[1], g[2]) :
       \E first \in TwinFirstData(g[1], g[2]) :
          /\ SetInit(randomizeWith(NewRenderer(StepWindow[1], StepWindow[2], g[1], g[2]), data))
          /\ \E t \in runSimulationStep(
                         randomizeWith(NewRenderer(TwinWindow[1], TwinWindow[2], g[1], g[2]), first)) :
                twin = randomizeWith(t, data)
    /\ InitMembers
    /\ pc = "api"
    /\ grid = <<>>
    /\ frame = <<>>
    /\ lastOp = [name |-> "randomizeBoard", args |-> <<>>]
    /\ nOps = 0

\* both renderers run Renderer::runSimulationStep
TwinStep ==
    /\ \E r \in runSimulationStep(Rend) : SetRend(r)
    /\ \E t \in runSimulationStep(twin) : twin' = t
    /\ Hist("runSimulationStep", <<>>)
    /\ UNCHANGED <<ctlVars, inputVars, loopVars, nOps>>

\* the twin's camera is zoomed about its window's centre, or panned by a pixel
TwinCamera ==
    /\ nOps < MaxOps
    /\ nOps' = nOps + 1
    /\ \/ twin' = zoomAt(twin, QInt(4), QInt(2), <<11, 10>>)
       \/ twin' = pan(twin, QInt(1), QInt(1))
    /\ lastOp' = [name |-> "camera", args |-> <<>>]
    /\ UNCHANGED <<rendVars, ctlVars, inputVars, loopVars, pre>>

\* the controller is paused or resumed (GameOfLife::processInput, SPACE)
TwinPause ==
    /\ isPaused' = ~isPaused
    /\ lastOp' = [name |-> "pause", args |-> <<>>]
    /\ UNCHANGED <<rendVars, limitSpeed, gameVars, inputVars, loopVars, nOps, twin, pre>>

NextTwin == TwinStep \/ TwinCamera \/ TwinPause

SpecTwin == InitTwin /\ [][NextTwin]_vars

\* C9: two renderers that hold the same grid content in their active buffers hold
\* the same next generation after a step each, whatever their pan, zoom, window
\* size, active index, inactive buffer and pause history.
C9_StepDeterministic ==
    StepDone =>
        /\ twin.textures[twin.currentTextureIndex] = Active
        /\ twin.GRID_WIDTH = GRID_WIDTH /\ twin.GRID_HEIGHT = GRID_HEIGHT

\* after a step from a non-empty content the two differ in index, zoom and window,
\* the controller has been paused, and the active buffers agree
C9_Witness ==
    /\ StepDone
    /\ twin.currentTextureIndex # currentTextureIndex
    /\ twin.zoom # zoom
    /\ twin.windowWidth # windowWidth
    /\ isPaused
    /\ \E c \in DOMAIN Active : Active[c] = 1
    /\ twin.textures[twin.currentTextureIndex] = Active

-----------------------------------------------------------------------------
(* SpecView: the camera and the mouse path, through the Renderer's public   *)
(* methods as the callbacks and processInput call them.  Windows and grids  *)
(* are a few pixels and cells, in the proportions of a wide window over a   *)
(* square grid and of a square window over a wide grid.                     *)

ViewWindows == {<<8, 4>>, <<4, 4>>}
ViewGrids == {<<10, 10>>, <<10, 5>>, <<5, 5>>}

\* cursor positions: the centre, one pixel left of it, the same near the top
\* edge, and one pixel from the left edge
ViewPoints(w, h) ==
    { <<Q(w, 2), Q(h, 2)>>, <<Q(w - 2, 2), Q(h, 2)>>, <<Q(w - 2, 2), Half>>,
      <<One, Q(h, 2)>> }

\* zoom factors: the two of scroll_callback (1.1f and 1.0f / 1.1f), and 1/2 and 2
ZoomFactors == {<<1, 2>>, <<10, 11>>, <<11, 10>>, <<2, 1>>}

\* cursor movements (dx, dy) of a right-button drag, in pixels
PanDeltas == {<<-2, 0>>, <<0, -1>>, <<1, 1>>}

\* (isGliderMode, gliderRotation) arguments of handleMouseDrawing
DrawModes == {<<FALSE, 0>>, <<TRUE, 0>>, <<TRUE, 1>>}

\* the draw of randomizeBoard in which every cell is dead
ViewData(W, H) == [c \in Cells(W, H) |-> 0]

InitView ==
    /\ \E win \in ViewWindows : \E g \in ViewGrids : \E b \in BOOLEAN :
          SetInit(Build(randomizeWith(NewRenderer(win[1], win[2], g[1], g[2]),
                                      ViewData(g[1], g[2])), b))
    /\ InitMembers
    /\ pc = "api"
    /\ grid = <<>>
    /\ frame = <<>>
    /\ lastOp = [name |-> "randomizeBoard", args |-> <<>>]
    /\ nOps = 0
    /\ twin = <<>>

\* scroll_callback: renderer.zoomAt at the cursor
ViewZoomAt ==
    /\ nOps < MaxOps
    /\ \E p \in ViewPoints(windowWidth, windowHeight) : \E f \in ZoomFactors :
          /\ SetRend(zoomAt(Rend, p[1], p[2], f))
          /\ Hist("zoomAt", <<p, f>>)
    /\ nOps' = nOps + 1
    /\ UNCHANGED <<ctlVars, inputVars, loopVars, twin>>

\* cursor_position_callback with the right button held: renderer.pan
ViewPan ==
    /\ nOps < MaxOps
    /\ \E d \in PanDeltas :
          /\ SetRend(pan(Rend, QInt(d[1]), QInt(d[2])))
          /\ Hist("pan", <<d>>)
    /\ nOps' = nOps + 1
    /\ UNCHANGED <<ctlVars, inputVars, loopVars, twin>>

\* key_callback, H: renderer.resetView
ViewResetView ==
    /\ nOps < MaxOps
    /\ SetRend(resetView(Rend))
    /\ Hist("resetView", <<>>)
    /\ nOps' = nOps + 1
    /\ UNCHANGED <<ctlVars, inputVars, loopVars, twin>>

\* framebuffer_size_callback: renderer.onWindowResize
ViewWindowResize ==
    /\ nOps < MaxOps
    /\ \E win \in ViewWindows :
          /\ SetRend(onWindowResize(Rend, win[1], win[2]))
          /\ Hist("onWindowResize", <<win>>)
    /\ nOps' = nOps + 1
    /\ UNCHANGED <<ctlVars, inputVars, loopVars, twin>>

\* promptAndResizeGrid with valid dimensions: renderer.resizeGrid
ViewResizeGrid ==
    /\ nOps < MaxOps
    /\ \E g \in ViewGrids : \E r \in resizeGrid(Rend, g[1], g[2]) :
          /\ SetRend(r)
          /\ Hist("resizeGrid", <<g>>)
    /\ nOps' = nOps + 1
    /\ UNCHANGED <<ctlVars, inputVars, loopVars, twin>>

\* processInput with the left button held: renderer.handleMouseDrawing
ViewDraw ==
    /\ nOps < MaxOps
    /\ \E p \in ViewPoints(windowWidth, windowHeight) : \E m \in DrawModes :
          /\ SetRend(handleMouseDrawing(Rend, TRUE, p, m[1], m[2]))
          /\ Hist("handleMouseDrawing", <<p, m[1], m[2]>>)
    /\ nOps' = nOps + 1
    /\ UNCHANGED <<ctlVars, inputVars, loopVars, twin>>

NextView ==
    \/ ViewZoomAt
    \/ ViewPan
    \/ ViewResetView
    \/ ViewWindowResize
    \/ ViewResizeGrid
    \/ ViewDraw

SpecView == InitView /\ [][NextView]_vars

-----------------------------------------------------------------------------
(* The camera claims, under SpecView *)

\* the v_unscaledUv of the cursor positions of the current window
UvOf(r, p) == unscaledUvOf(r, p[1], p[2])

\* the cursor position the last operation was given
OpPoint == lastOp.args[1]

\* a texture coordinate strictly inside a cell: on neither axis on a cell boundary
StrictlyInside(tc, W, H) ==
    /\ QMul(tc[1], QInt(W))[2] # 1
    /\ QMul(tc[2], QInt(H))[2] # 1

\* C2: in every state, a cursor position that the render path shows (not in the
\* bars) and that the mouse path does not reject is mapped to the same texture UV
\* by draw.vert and by screenToTextureCoords.
C2_SameUV ==
    \A p \in ViewPoints(windowWidth, windowHeight) :
        (/\ ~isInBars(Rend, UvOf(Rend, p))
         /\ screenToTextureCoords(Rend, p[1], p[2]) # Invalid)
        => screenToTextureCoords(Rend, p[1], p[2]) = drawVert(Rend, UvOf(Rend, p))

\* C3: a single-cell draw at a cursor position where the render path shows the
\* inside of cell (x, y) sets cell (x, y) of the active buffer and no other cell.
C3_RoundTrip ==
    (/\ lastOp.name = "handleMouseDrawing"
     /\ ~lastOp.args[2]
     /\ drawFrag(pre, UvOf(pre, OpPoint)).shown
     /\ StrictlyInside(drawVert(pre, UvOf(pre, OpPoint)), pre.GRID_WIDTH, pre.GRID_HEIGHT))
    => LET c == drawFrag(pre, UvOf(pre, OpPoint)).cell
       IN  Rend = writeWhite(pre, c[1], c[2])

\* C4: after zoomAt at a cursor position that is shown, and that the mouse path
\* maps into the grid both before and after, the cell under the cursor has moved
\* by at most one cell on each axis.
C4_ZoomToCursor ==
    (/\ lastOp.name = "zoomAt"
     /\ drawFrag(pre, UvOf(pre, OpPoint)).shown
     /\ ~mouseRejected(pre, OpPoint)
     /\ ~mouseRejected(Rend, OpPoint))
    => LET b == mouseGridCell(pre, OpPoint)
           a == mouseGridCell(Rend, OpPoint)
       IN  IAbs(a[1] - b[1]) <= 1 /\ IAbs(a[2] - b[2]) <= 1

\* C5: at zoom = 1 with a window aspect different from the grid aspect, a
\* left-button draw at a cursor position in the bars of draw.frag is rejected by
\* the mouse path and changes no cell.
C5_BarRejected ==
    (/\ lastOp.name = "handleMouseDrawing"
     /\ pre.zoom = One
     /\ windowAspectOf(pre) # gridAspectOf(pre)
     /\ isInBars(pre, UvOf(pre, OpPoint)))
    => /\ mouseRejected(pre, OpPoint)
       /\ textures = pre.textures

\* C6: in every state 0.1 <= zoom <= maxZoom and maxZoom = max(W, H) / 10.
C6_ZoomInRange ==
    /\ QLe(MinZoom, zoom)
    /\ QLe(zoom, maxZoom)
    /\ maxZoom = maxZoomFor(GRID_WIDTH, GRID_HEIGHT)

-----------------------------------------------------------------------------
(* Spec: the main loop.  GameOfLife::mainLoop runs, once per iteration,      *)
(* glfwPollEvents (which calls the InputHandler callbacks of the events that *)
(* have arrived), processInput, the step when it is due, and drawToScreen.   *)
(* pc is the position in the loop body.  The history variable grid is the    *)
(* grid of a machine with a single buffer, given the same operations.        *)

\* the window and the grids of the loop, and the cursor position the mouse moves to
LoopWindow == <<4, 4>>
LoopGrids == {<<2, 2>>}
LoopPoints == {<<One, One>>}

\* the keys delivered to key_callback; of the keys processInput polls, K, Up, Down,
\* S and T are never pressed here
LoopKeys == {"SPACE", "C", "R", "N", "G"}

\* what promptAndResizeGrid can read from the console: a valid and an invalid pair
ResizeInputs == {<<2, 1>>, <<0, 2>>}

\* (mutant of wasKeyPressed) the test ignores keysProcessed: a held key counts
wasKeyPressedHeld(key) == key \in keys

\* InputHandler::wasKeyPressed(key), as a test of the arrays before the call
wasKeyPressed(key) == key \in keys /\ key \notin keysProcessed

\* the keys GameOfLife::processInput polls
PolledKeys == {"K", "UP", "DOWN", "S", "N", "SPACE", "C", "R", "G", "T"}

\* the renderer r with both buffers holding g: the single-buffer reference machine
Ref(r, g) == [r EXCEPT !.textures = [i \in 0 .. 1 |-> g], !.currentTextureIndex = 0]

\* GameOfLife::GameOfLife, GameOfLife::run up to the first glfwPollEvents.  At the
\* cursor positions, window and grids of the loop the two overloads of abs give
\* screenToTextureCoords the same result, so one build stands for both.
Init ==
    /\ \E g \in LoopGrids : \E data \in RandomData(g[1], g[2]) :
          /\ SetInit(randomizeWith(
                 NewRenderer(LoopWindow[1], LoopWindow[2], g[1], g[2]), data))
          /\ grid = data
    /\ InitMembers
    /\ pc = "poll"
    /\ frame = <<>>
    /\ lastOp = [name |-> "randomizeBoard", args |-> <<>>]
    /\ nOps = 0
    /\ twin = <<>>

\* key_callback, action GLFW_PRESS, for a key that is not held
KeyPress ==
    /\ pc = "poll"
    /\ nOps < MaxOps
    /\ Cardinality(keys) < MaxHeld
    /\ \E key \in LoopKeys \ keys :
          /\ keys' = keys \cup {key}
          /\ keysProcessed' = keysProcessed \ {key}
    /\ nOps' = nOps + 1
    /\ UNCHANGED <<rendVars, ctlVars, mousePosition, isLeftMouseDrag,
                   isRightMouseButtonPressed, lastMouseX, lastMouseY, isGliderMode,
                   gliderRotation, loopVars, lastOp, pre, twin>>

\* key_callback, action GLFW_RELEASE
KeyRelease ==
    /\ pc = "poll"
    /\ nOps < MaxOps
    /\ \E key \in keys :
          /\ keys' = keys \ {key}
          /\ keysProcessed' = keysProcessed \ {key}
    /\ nOps' = nOps + 1
    /\ UNCHANGED <<rendVars, ctlVars, mousePosition, isLeftMouseDrag,
                   isRightMouseButtonPressed, lastMouseX, lastMouseY, isGliderMode,
                   gliderRotation, loopVars, lastOp, pre, twin>>

\* mouse_button_callback for the left button: a press when it is up, a release
\* when it is down
MouseButton ==
    /\ pc = "poll"
    /\ nOps < MaxOps
    /\ isLeftMouseDrag' = ~isLeftMouseDrag
    /\ nOps' = nOps + 1
    /\ UNCHANGED <<rendVars, ctlVars, mousePosition, isRightMouseButtonPressed,
                   lastMouseX, lastMouseY, isGliderMode, gliderRotation, keys,
                   keysProcessed, loopVars, lastOp, pre, twin>>

\* cursor_position_callback
CursorPos ==
    /\ pc = "poll"
    /\ nOps < MaxOps
    /\ \E p \in LoopPoints :
          /\ p # mousePosition
          /\ mousePosition' = p
          /\ IF isRightMouseButtonPressed
             THEN SetRend(pan(Rend, QSub(p[1], lastMouseX), QSub(p[2], lastMouseY)))
             ELSE UNCHANGED rendVars
          /\ lastMouseX' = p[1]
          /\ lastMouseY' = p[2]
    /\ nOps' = nOps + 1
    /\ UNCHANGED <<ctlVars, isLeftMouseDrag, isRightMouseButtonPressed, isGliderMode,
                   gliderRotation, keys, keysProcessed, loopVars, lastOp, pre, twin>>

\* glfwPollEvents returns
PollDone ==
    /\ pc = "poll"
    /\ pc' = "input"
    /\ UNCHANGED <<rendVars, ctlVars, inputVars, grid, frame, lastOp, pre, nOps, twin>>

\* GameOfLife::processInput.  Up, Down and S are never held here, so their
\* branches (which only touch the speed) are not taken.
ProcessInput ==
    /\ pc = "input"
    /\ \E inp \in ResizeInputs :
       LET valid == inp[1] > 0 /\ inp[2] > 0
           resized == wasKeyPressed("N") /\ valid
       IN  \E r1 \in (IF resized THEN resizeGrid(Rend, inp[1], inp[2]) ELSE {Rend}) :
           LET g1 == IF resized THEN r1.textures[r1.currentTextureIndex] ELSE grid
               paused1 == IF wasKeyPressed("N") THEN TRUE ELSE isPaused
               paused2 == IF wasKeyPressed("SPACE") THEN ~paused1 ELSE paused1
               r2 == IF wasKeyPressed("C") THEN clearBoard(r1) ELSE r1
               g2 == IF wasKeyPressed("C") THEN clearBoard(Ref(r1, g1)).textures[0] ELSE g1
           IN  \E r3 \in (IF wasKeyPressed("R") THEN randomizeBoard(r2) ELSE {r2}) :
               LET g3 == IF wasKeyPressed("R") THEN r3.textures[r3.currentTextureIndex]
                         ELSE g2
                   glider1 == IF wasKeyPressed("G") THEN ~isGliderMode ELSE isGliderMode
                   rot1 == IF wasKeyPressed("T") /\ glider1
                           THEN (gliderRotation + 1) % 4 ELSE gliderRotation
               IN  /\ SetRend(handleMouseDrawing(r3, isLeftMouseDrag, mousePosition,
                                                 glider1, rot1))
                   /\ grid' = handleMouseDrawing(Ref(r3, g3), isLeftMouseDrag,
                                                 mousePosition, glider1, rot1).textures[0]
                   /\ isPaused' = paused2
                   /\ gridWidth' = IF resized THEN inp[1] ELSE gridWidth
                   /\ gridHeight' = IF resized THEN inp[2] ELSE gridHeight
                   /\ isGliderMode' = glider1
                   /\ gliderRotation' = rot1
    /\ limitSpeed' = IF wasKeyPressed("K") THEN ~limitSpeed ELSE limitSpeed
    /\ keysProcessed' = keysProcessed \cup (keys \cap PolledKeys)
    /\ Hist("processInput", <<>>)
    /\ pc' = "step"
    /\ UNCHANGED <<updatesPerSecond, timeOfLastUpdate, currentTime, mousePosition,
                   isLeftMouseDrag, isRightMouseButtonPressed, lastMouseX, lastMouseY,
                   keys, frame, nOps, twin>>

\* mainLoop: the step runs when the game is not paused and the speed limit is
\* off or the update interval has elapsed (due).  Here the clock is not followed:
\* currentTime keeps the reading mainLoop starts with, so timeOfLastUpdate =
\* currentTime assigns the value it has, and due stands for the comparison.
RunStep ==
    /\ pc = "step"
    /\ ~isPaused
    /\ \E due \in BOOLEAN : ~limitSpeed \/ due
    /\ \E r \in runSimulationStep(Rend) : SetRend(r)
    /\ grid' = [c \in Cells(GRID_WIDTH, GRID_HEIGHT) |->
                   LifeRule(grid, GRID_WIDTH, GRID_HEIGHT, c[1], c[2])]
    /\ Hist("runSimulationStep", <<>>)
    /\ pc' = "draw"
    /\ UNCHANGED <<ctlVars, inputVars, frame, nOps, twin>>

\* mainLoop: no step in this iteration (paused, or the interval has not elapsed)
SkipStep ==
    /\ pc = "step"
    /\ isPaused \/ limitSpeed
    /\ pc' = "draw"
    /\ UNCHANGED <<rendVars, ctlVars, inputVars, grid, frame, lastOp, pre, nOps, twin>>

\* mainLoop: renderer->drawToScreen and glfwSwapBuffers
Draw ==
    /\ pc = "draw"
    /\ frame' = drawToScreen(Rend)
    /\ pc' = "poll"
    /\ UNCHANGED <<rendVars, ctlVars, inputVars, grid, lastOp, pre, nOps, twin>>

Next ==
    \/ KeyPress
    \/ KeyRelease
    \/ MouseButton
    \/ CursorPos
    \/ PollDone
    \/ ProcessInput
    \/ RunStep
    \/ SkipStep
    \/ Draw

Spec == Init /\ [][Next]_vars

\* C7: the active index is 0 or 1; the active buffer is the grid of the
\* single-buffer machine (a complete generation: every cell the image of the
\* previous one after a step, every user write applied); what drawToScreen sampled
\* is that grid; a step leaves the buffer it read untouched and shows the new one
\* only by flipping the index; processInput without a resize leaves the inactive
\* buffer untouched.
C7_ActiveBuffer ==
    /\ currentTextureIndex \in {0, 1}
    /\ textures[currentTextureIndex] = grid
    /\ (pc \in {"poll", "input"} /\ frame # <<>>) => frame = grid
    /\ (pc = "draw" /\ StepDone) =>
           /\ currentTextureIndex = 1 - pre.currentTextureIndex
           /\ textures[pre.currentTextureIndex] = PreActive
    /\ (pc = "step" /\ lastOp.name = "processInput" /\ GRID_WIDTH = pre.GRID_WIDTH
            /\ GRID_HEIGHT = pre.GRID_HEIGHT) =>
           textures[1 - currentTextureIndex] = pre.textures[1 - pre.currentTextureIndex]

\* a frame drawn from buffer 1 after a step, with the left button held over the
\* grid, that shows a live cell
C7_Witness ==
    /\ pc = "poll"
    /\ currentTextureIndex = 1
    /\ StepDone
    /\ isLeftMouseDrag
    /\ mousePosition # <<Zero, Zero>>
    /\ frame = textures[1]
    /\ \E c \in DOMAIN frame : frame[c] = 1

-----------------------------------------------------------------------------
(* SpecOsc: the step on a blinker.  The state after Renderer::Renderer and    *)
(* a randomizeBoard whose draw is a blinker, at every position and in both   *)
(* orientations, on every grid with sides from 3 to MaxPatDim; then steps.   *)
(* The history variable grid keeps the initial content.                      *)

\* three live cells in a row through (x, y), wrapped: horizontal or vertical
BlinkerAt(W, H, x, y, horizontal) ==
    [c \in Cells(W, H) |->
        IF horizontal
        THEN IF c[2] = y /\ c[1] \in {(x + W - 1) % W, x, (x + 1) % W} THEN 1 ELSE 0
        ELSE IF c[1] = x /\ c[2] \in {(y + H - 1) % H, y, (y + 1) % H} THEN 1 ELSE 0]

OscGrids == (3 .. MaxPatDim) \X (3 .. MaxPatDim)

InitOsc ==
    /\ \E g \in OscGrids : \E c \in Cells(g[1], g[2]) : \E horizontal \in BOOLEAN :
          /\ SetInit(randomizeWith(NewRenderer(StepWindow[1], StepWindow[2], g[1], g[2]),
                                   BlinkerAt(g[1], g[2], c[1], c[2], horizontal)))
          /\ grid = BlinkerAt(g[1], g[2], c[1], c[2], horizontal)
    /\ InitMembers
    /\ pc = "api"
    /\ frame = <<>>
    /\ lastOp = [name |-> "randomizeBoard", args |-> <<>>]
    /\ nOps = 0
    /\ twin = <<>>

SpecOsc == InitOsc /\ [][NextStep]_vars

\* content is the three-cell line perpendicular to the blinker `first`, through the
\* same centre
Perpendicular(first, content, W, H) ==
    \E c \in Cells(W, H) : \E horizontal \in BOOLEAN :
        /\ first = BlinkerAt(W, H, c[1], c[2], horizontal)
        /\ content = BlinkerAt(W, H, c[1], c[2], ~horizontal)

\* the blinker has period 2: after an odd number of steps (active index 1) the
\* active buffer is the perpendicular line, after an even number the blinker itself
Oscillates ==
    StepDone =>
        IF currentTextureIndex = 1
        THEN Perpendicular(grid, Active, GRID_WIDTH, GRID_HEIGHT)
        ELSE Active = grid

\* C11 (as stated): a blinker oscillates with period 2 at every position of every
\* grid, whatever the grid's size.
C11_BlinkerAnySize == Oscillates

\* C11 (amended): on a grid at least 4 cells wide and 4 cells high a blinker
\* oscillates with period 2 at every position, the wrapped ones included.
C11_Blinker == (GRID_WIDTH >= 4 /\ GRID_HEIGHT >= 4) => Oscillates

\* two steps on a 4x5 grid from the horizontal blinker through the corner (0, 0),
\* whose cells are (3,0), (0,0), (1,0)
C11_Witness ==
    /\ StepDone
    /\ GRID_WIDTH = 4 /\ GRID_HEIGHT = 5
    /\ grid = BlinkerAt(4, 5, 0, 0, TRUE)
    /\ currentTextureIndex = 0
    /\ Active = grid
    /\ textures[1] = BlinkerAt(4, 5, 0, 0, FALSE)


-----------------------------------------------------------------------------
(* SpecStamp: one drawing call on a freshly seeded renderer.  The call and  *)
(* its arguments are drawn in the initial state (lastOp, with pc = "call"); *)
(* the one action of its kind applies it (pc = "done").  drawPattern is     *)
(* called with centres on and one cell around the grid; handleMouseDrawing  *)
(* is called with the cursor on every pixel corner of the window, the right *)
(* and bottom borders included.                                             *)

StampGrids == {<<4, 4>>, <<MaxPatDim, 4>>}

\* the contents the grid holds before the call: none alive, two corners alive
StampData(W, H) ==
    { [c \in Cells(W, H) |-> 0],
      [c \in Cells(W, H) |-> IF c \in {<<0, 0>>, <<W - 1, H - 1>>} THEN 1 ELSE 0] }

\* the pattern arguments: the glider, every one-offset pattern within two cells,
\* and a pattern whose first offset is far off the grid
StampPatterns ==
    {gliderPattern, << <<-9, 0>>, <<1, 1>> >>}
        \cup {<< <<dx, dy>> >> : dx \in -2 .. 2, dy \in -2 .. 2}

StampCalls(W, H, w, h) ==
    {[name |-> "drawPattern", args |-> <<cx, cy, pat, rot>>] :
        cx \in -1 .. W, cy \in -1 .. H, pat \in StampPatterns, rot \in 0 .. 3}
    \cup
    {[name |-> "handleMouseDrawing", args |-> <<<<QInt(sx), QInt(sy)>>, glider, rot>>] :
        sx \in 0 .. w, sy \in 0 .. h, glider \in BOOLEAN, rot \in 0 .. 3}

InitStamp ==
    /\ \E g \in StampGrids : \E data \in StampData(g[1], g[2]) :
          SetInit(randomizeWith(NewRenderer(StepWindow[1], StepWindow[2], g[1], g[2]), data))
    /\ InitMembers
    /\ pc = "call"
    /\ grid = <<>>
    /\ frame = <<>>
    /\ lastOp \in StampCalls(GRID_WIDTH, GRID_HEIGHT, windowWidth, windowHeight)
    /\ nOps = 0
    /\ twin = <<>>

\* Renderer::drawPattern, called on the renderer
StampPattern ==
    /\ pc = "call"
    /\ lastOp.name = "drawPattern"
    /\ SetRend(drawPattern(Rend, lastOp.args[1], lastOp.args[2], lastOp.args[3],
                           lastOp.args[4]))
    /\ pre' = Rend
    /\ pc' = "done"
    /\ UNCHANGED <<ctlVars, inputVars, grid, frame, lastOp, nOps, twin>>

\* Renderer::handleMouseDrawing, called with the left button held
StampMouse ==
    /\ pc = "call"
    /\ lastOp.name = "handleMouseDrawing"
    /\ SetRend(handleMouseDrawing(Rend, TRUE, lastOp.args[1], lastOp.args[2],
                                  lastOp.args[3]))
    /\ pre' = Rend
    /\ pc' = "done"
    /\ UNCHANGED <<ctlVars, inputVars, grid, frame, lastOp, nOps, twin>>

NextStamp ==
    \/ StampPattern
    \/ StampMouse

SpecStamp == InitStamp /\ [][NextStamp]_vars

\* the quarter turn R(dx, dy) = (-dy, dx), applied n times
R(o) == <<-o[2], o[1]>>

RECURSIVE RotN(_, _)
RotN(o, n) == IF n = 0 THEN o ELSE R(RotN(o, n - 1))

\* the cells centre + R^rot(offset), for the offsets of a pattern
Targets(centre, pattern, rot) ==
    {<<centre[1] + RotN(pattern[i], rot)[1], centre[2] + RotN(pattern[i], rot)[2]>> :
        i \in 1 .. Len(pattern)}

PatternDone == pc = "done" /\ lastOp.name = "drawPattern"

Live(tex) == {c \in DOMAIN tex : tex[c] = 1}

\* the glider turned by one quarter turn, as the specification lists it
GliderQuarterTurn == {<<0, 1>>, <<-1, 2>>, <<-2, 0>>, <<-2, 1>>, <<-2, 2>>}

\* C12: after drawPattern(centre, pattern, r), every cell centre + R^r(dx, dy)
\* that lies on the grid is alive, for every offset (dx, dy) of the pattern and
\* every r in 0..3; the glider drawn with r = 1 on an empty grid that holds all
\* its targets leaves alive exactly the cells at the offsets (0,1), (-1,2),
\* (-2,0), (-2,1), (-2,2) from the centre.
C12_Rotation ==
    PatternDone =>
        LET centre == <<lastOp.args[1], lastOp.args[2]>>
            pattern == lastOp.args[3]
            rot == lastOp.args[4]
            quarter == {<<centre[1] + o[1], centre[2] + o[2]>> : o \in GliderQuarterTurn}
        IN  /\ \A c \in Targets(centre, pattern, rot) :
                  c \in Cells(GRID_WIDTH, GRID_HEIGHT) => Active[c] = 1
            /\ (/\ pattern = gliderPattern /\ rot = 1
                /\ Live(PreActive) = {}
                /\ quarter \subseteq Cells(GRID_WIDTH, GRID_HEIGHT))
               => Live(Active) = quarter

\* the glider drawn at centre (2, 0) of an empty 4x4 grid with r = 1
C12_Witness ==
    /\ PatternDone
    /\ GRID_WIDTH = 4 /\ GRID_HEIGHT = 4
    /\ lastOp.args = <<2, 0, gliderPattern, 1>>
    /\ Live(PreActive) = {}
    /\ Live(Active) = {<<2, 1>>, <<1, 2>>, <<0, 0>>, <<0, 1>>, <<0, 2>>}


\* the cells a finished drawing call aims at: the rotated offsets of a stamp
\* around its centre, or the one cell under the cursor
MouseDone == pc = "done" /\ lastOp.name = "handleMouseDrawing"

DrawTargets ==
    IF lastOp.name = "drawPattern"
    THEN Targets(<<lastOp.args[1], lastOp.args[2]>>, lastOp.args[3], lastOp.args[4])
    ELSE IF lastOp.args[2]
         THEN Targets(mouseGridCell(pre, lastOp.args[1]), gliderPattern, lastOp.args[3])
         ELSE {mouseGridCell(pre, lastOp.args[1])}

\* C13: a drawing call (a stamp, or a single-cell draw whose click was not
\* rejected) sets to alive exactly its targets inside [0,W) x [0,H) and leaves
\* every other cell of the active buffer, the other buffer, the grid size and
\* everything else of the renderer as it was; targets outside the grid are
\* skipped one by one, without wrap-around.
C13_OutOfBounds ==
    (PatternDone \/ (MouseDone /\ ~mouseRejected(pre, lastOp.args[1]))) =>
        Rend = [pre EXCEPT !.textures[pre.currentTextureIndex] =
                   [c \in Cells(pre.GRID_WIDTH, pre.GRID_HEIGHT) |->
                       IF c \in DrawTargets THEN 1 ELSE PreActive[c]]]

\* the glider stamped with the cursor on the bottom row of a 4x4 grid, one column
\* from the right edge (centre (3, 0)): four of its five offsets fall off the
\* grid, the first two among them, and only (3, 2) is written
C13_Witness ==
    /\ MouseDone
    /\ GRID_WIDTH = 4 /\ GRID_HEIGHT = 4
    /\ lastOp.args = <<<<QInt(3), QInt(4)>>, TRUE, 0>>
    /\ mouseGridCell(pre, lastOp.args[1]) = <<3, 0>>
    /\ DrawTargets \cap Cells(4, 4) = {<<3, 2>>}
    /\ Live(PreActive) = {}
    /\ Live(Active) = {<<3, 2>>}


-----------------------------------------------------------------------------
(* SpecCtl: the main loop with the controller keys, the two console prompts, *)
(* the clock, the scroll wheel and window resizes.  The clock is read in     *)
(* sixtieths of a second; the loop stops when the clock passes MaxTime       *)
(* sixtieths, and it ends (pc = "exit") when processInput throws.            *)

CtlGrids == {<<2, 1>>}
CtlWindows == {<<4, 4>>, <<8, 4>>}
CtlKeys == {"K", "UP", "DOWN", "S", "N", "SPACE"}

\* what promptAndSetSpeed can read: a positive speed, zero, a negative speed, and
\* text that is not a number (the stream fails and the value is 0)
SpeedInputs ==
    { [good |-> TRUE, value |-> QInt(60)], [good |-> TRUE, value |-> Zero],
      [good |-> TRUE, value |-> QInt(-5)], [good |-> FALSE, value |-> Zero] }

\* what promptAndResizeGrid can read: valid dimensions, a zero width, a negative
\* height, and text that is not a number
CtlResizeInputs ==
    { [good |-> TRUE, width |-> 1, height |-> 3], [good |-> TRUE, width |-> 0, height |-> 2],
      [good |-> TRUE, width |-> 2, height |-> -1], [good |-> FALSE, width |-> 0, height |-> 0] }

\* the prompt was not reached
NoInput == [good |-> FALSE, value |-> Zero, width |-> 0, height |-> 0, none |-> TRUE]

\* the time between two clock readings of mainLoop
TimeSteps == {Q(1, 60), Q(1, 30)}

InitCtl ==
    /\ \E g \in CtlGrids : \E data \in RandomData(g[1], g[2]) :
          SetInit(randomizeWith(
              NewRenderer(LoopWindow[1], LoopWindow[2], g[1], g[2]), data))
    /\ InitMembers
    /\ pc = "poll"
    /\ grid = <<>>
    /\ frame = <<>>
    /\ lastOp = [name |-> "randomizeBoard", args |-> <<>>]
    /\ nOps = 0
    /\ twin = <<>>

\* key_callback, action GLFW_PRESS, for a controller key that is not held
CtlKeyPress ==
    /\ pc = "poll"
    /\ nOps < MaxOps
    /\ Cardinality(keys) < MaxHeld
    /\ \E key \in CtlKeys \ keys :
          /\ keys' = keys \cup {key}
          /\ keysProcessed' = keysProcessed \ {key}
    /\ nOps' = nOps + 1
    /\ UNCHANGED <<rendVars, ctlVars, mousePosition, isLeftMouseDrag,
                   isRightMouseButtonPressed, lastMouseX, lastMouseY, isGliderMode,
                   gliderRotation, loopVars, lastOp, pre, twin>>

\* scroll_callback: renderer.zoomAt at the cursor, one notch in
CtlScroll ==
    /\ pc = "poll"
    /\ nOps < MaxOps
    /\ SetRend(zoomAt(Rend, One, One, <<11, 10>>))
    /\ nOps' = nOps + 1
    /\ UNCHANGED <<ctlVars, inputVars, loopVars, lastOp, pre, twin>>

\* framebuffer_size_callback: renderer.onWindowResize with another size
CtlWindowResize ==
    /\ pc = "poll"
    /\ nOps < MaxOps
    /\ \E win \in CtlWindows \ {<<windowWidth, windowHeight>>} :
          SetRend(onWindowResize(Rend, win[1], win[2]))
    /\ nOps' = nOps + 1
    /\ UNCHANGED <<ctlVars, inputVars, loopVars, lastOp, pre, twin>>

\* GameOfLife::processInput; lastOp keeps what the prompts it reached have read
CtlProcessInput ==
    /\ pc = "input"
    /\ LET pressed == {key \in PolledKeys : wasKeyPressed(key)}
       IN  \E sp \in (IF "S" \in pressed THEN SpeedInputs ELSE {NoInput}) :
           \E rs \in (IF "N" \in pressed THEN CtlResizeInputs ELSE {NoInput}) :
           \E complete \in (IF "N" \in pressed /\ rs.good /\ rs.width > 0 /\ rs.height > 0
                            THEN BOOLEAN ELSE {TRUE}) :
           \E g \in processInput(Game, pressed, sp, rs, complete, isLeftMouseDrag,
                                 mousePosition) :
              /\ SetGame(g)
              /\ pc' = IF g.threw THEN "exit" ELSE "step"
              /\ Hist("processInput", <<sp, rs, complete>>)
    /\ keysProcessed' = keysProcessed \cup (keys \cap PolledKeys)
    /\ UNCHANGED <<currentTime, mousePosition, isLeftMouseDrag, isRightMouseButtonPressed,
                   lastMouseX, lastMouseY, keys, grid, frame, nOps, twin>>

\* mainLoop: the clock is read and the step runs
CtlRunStep ==
    /\ pc = "step"
    /\ \E dt \in TimeSteps :
          LET now == QAdd(currentTime, dt)
          IN  /\ QLe(now, Q(MaxTime, 60))
              /\ stepDue(Game, now)
              /\ currentTime' = now
              /\ timeOfLastUpdate' = now
    /\ \E r \in runSimulationStep(Rend) : SetRend(r)
    /\ Hist("runSimulationStep", <<>>)
    /\ pc' = "draw"
    /\ UNCHANGED <<isPaused, limitSpeed, updatesPerSecond, gridWidth, gridHeight, inputVars,
                   grid, frame, nOps, twin>>

\* mainLoop: the clock is read and no step runs in this iteration
CtlSkipStep ==
    /\ pc = "step"
    /\ \E dt \in TimeSteps :
          LET now == QAdd(currentTime, dt)
          IN  /\ QLe(now, Q(MaxTime, 60))
              /\ ~stepDue(Game, now)
              /\ currentTime' = now
    /\ pc' = "draw"
    /\ UNCHANGED <<rendVars, isPaused, limitSpeed, updatesPerSecond, timeOfLastUpdate,
                   gridWidth, gridHeight, inputVars, grid, frame, lastOp, pre, nOps, twin>>

NextCtl ==
    \/ CtlKeyPress
    \/ KeyRelease
    \/ CtlScroll
    \/ CtlWindowResize
    \/ PollDone
    \/ CtlProcessInput
    \/ CtlRunStep
    \/ CtlSkipStep
    \/ Draw

SpecCtl == InitCtl /\ [][NextCtl]_vars


\* the last processInput reached the resize prompt, read valid dimensions and the
\* resize went through; the loop has not yet passed the render of that iteration
ResizeRead == lastOp.name = "processInput" /\ "width" \in DOMAIN lastOp.args[2]
                 /\ "none" \notin DOMAIN lastOp.args[2]
ResizeValid == ResizeRead /\ lastOp.args[2].good /\ lastOp.args[2].width > 0
                  /\ lastOp.args[2].height > 0
ResizeDone == ResizeValid /\ lastOp.args[3] /\ pc \in {"step", "draw"}

\* C14: after a successful grid resize to (W', H'), and before the step and the
\* render of the same loop iteration: pan = (0,0), zoom = 1, maxZoom =
\* max(W',H')/10, the renderer and the GameOfLife object hold the dimensions
\* (W', H'), both buffers have exactly the cells of a W' x H' grid and every cell
\* of the active buffer has been written with 0 or 1.
C14_ResizeResets ==
    ResizeDone =>
        LET W == lastOp.args[2].width
            H == lastOp.args[2].height
        IN  /\ panX = Zero /\ panY = Zero /\ zoom = One
            /\ maxZoom = Q(IF W >= H THEN W ELSE H, 10)
            /\ GRID_WIDTH = W /\ GRID_HEIGHT = H
            /\ gridWidth = W /\ gridHeight = H
            /\ \A i \in 0 .. 1 : DOMAIN textures[i] = Cells(W, H)
            /\ \A c \in Cells(W, H) : Active[c] \in {0, 1}

\* a resize of the 2x1 grid to 1x3 after the wheel had moved the camera
C14_Witness ==
    /\ ResizeDone
    /\ pc = "step"
    /\ pre.GRID_WIDTH = 2 /\ pre.GRID_HEIGHT = 1
    /\ pre.zoom # One
    /\ pre.panX # Zero
    /\ GRID_WIDTH = 1 /\ GRID_HEIGHT = 3
    /\ maxZoom = Q(3, 10)
    /\ zoom = One


\* C15: a window resize event (the one event that changes the stored window
\* width or height) changes nothing else: pan, zoom, maxZoom, the grid
\* dimensions, the active index, both buffers and the Paused/Running state are
\* what they were.
C15_WindowResizeOnly ==
    [][(windowWidth' # windowWidth \/ windowHeight' # windowHeight) =>
          /\ UNCHANGED <<panX, panY, zoom, maxZoom>>
          /\ UNCHANGED <<GRID_WIDTH, GRID_HEIGHT, gridWidth, gridHeight>>
          /\ UNCHANGED <<currentTextureIndex, textures>>
          /\ UNCHANGED isPaused]_vars

\* the window resized from 4x4 to 8x4 after the wheel had moved the camera
C15_Witness ==
    /\ windowWidth = 8 /\ windowHeight = 4
    /\ zoom # One
    /\ panX # Zero
    /\ nOps = 2


\* a step ran in this transition: the active index flipped
StepRan == currentTextureIndex' # currentTextureIndex

C17_StepTiming ==
    [][/\ (pc = "step" /\ pc' = "draw") =>
             LET now == currentTime'
                 elapsed == QSub(now, timeOfLastUpdate)
                 running == ~isPaused
                 intervalOver == QLe(QDiv(One, updatesPerSecond), elapsed)
             IN  /\ StepRan <=> (running /\ (~limitSpeed \/ intervalOver))
                 /\ StepRan =>
                       /\ textures'[currentTextureIndex'] =
                             [c \in Cells(GRID_WIDTH, GRID_HEIGHT) |->
                                 LifeRule(Active, GRID_WIDTH, GRID_HEIGHT, c[1], c[2])]
                       /\ timeOfLastUpdate' = now
                 /\ ~StepRan => UNCHANGED <<textures, timeOfLastUpdate>>
       /\ pc # "step" => (~StepRan /\ UNCHANGED timeOfLastUpdate)
       /\ isPaused => ~StepRan]_vars

\* the first step of a run at 30 steps per second, taken by the iteration whose
\* clock reading is exactly one interval (1/30 s) after the start
C17_Witness ==
    /\ StepDone
    /\ pc = "draw"
    /\ limitSpeed
    /\ updatesPerSecond = QInt(30)
    /\ currentTextureIndex = 1
    /\ pre.currentTextureIndex = 0
    /\ timeOfLastUpdate = Q(1, 30)
    /\ currentTime = Q(1, 30)


\* the last processInput reached the speed prompt, and what it read was rejected
SpeedRead == lastOp.name = "processInput" /\ "value" \in DOMAIN lastOp.args[1]
                /\ "none" \notin DOMAIN lastOp.args[1]
SpeedRejected == SpeedRead /\ ~(lastOp.args[1].good /\ QLt(Zero, lastOp.args[1].value))

\* C18: updatesPerSecond is positive before and after every transition, whatever
\* keys are pressed and whatever the prompts read; a processInput whose set-speed
\* request reads a non-positive or unparsable speed leaves updatesPerSecond at the
\* value it had when the prompt was reached (the value before the call, times 1.5
\* if Up and divided by 1.5 if Down was seen by the same call).
C18_SpeedPositive ==
    [][/\ QLt(Zero, updatesPerSecond)
       /\ QLt(Zero, updatesPerSecond')
       /\ (pc = "input" /\ pc' # "input" /\ SpeedRejected') =>
             LET up == IF wasKeyPressed("UP") THEN QMul(updatesPerSecond, Q(3, 2))
                       ELSE updatesPerSecond
                 down == IF wasKeyPressed("DOWN") THEN QDiv(up, Q(3, 2)) ELSE up
             IN  updatesPerSecond' = down]_vars

\* a set-speed request that read -5 and left the 30 steps per second in place
C18_Witness ==
    /\ SpeedRejected
    /\ lastOp.args[1] = [good |-> TRUE, value |-> QInt(-5)]
    /\ updatesPerSecond = QInt(30)
    /\ pc = "step"


\* the keys for which wasKeyPressed is true
Pressed == {key \in PolledKeys : wasKeyPressed(key)}

\* this transition is a processInput that did nothing but reach prompts whose
\* input was rejected
RejectedRequest ==
    /\ pc = "input" /\ pc' # "input"
    /\ Pressed # {} /\ Pressed \subseteq {"S", "N"}
    /\ "S" \in Pressed => SpeedRejected'
    /\ "N" \in Pressed => (ResizeRead' /\ ~ResizeValid')

\* C19: a rejected configuration request (dimensions that are not both positive,
\* a non-positive speed, or unparsable text) changes nothing: the grid
\* dimensions, both buffers, the active index, pan, zoom, maxZoom,
\* updatesPerSecond, limitSpeed and the Paused/Running state are what they were,
\* and the loop goes on to its step test.
C19_RejectedIgnored ==
    [][RejectedRequest =>
          /\ UNCHANGED <<GRID_WIDTH, GRID_HEIGHT, gridWidth, gridHeight>>
          /\ UNCHANGED <<textures, currentTextureIndex>>
          /\ UNCHANGED <<panX, panY, zoom, maxZoom>>
          /\ UNCHANGED <<updatesPerSecond, limitSpeed>>
          /\ UNCHANGED isPaused
          /\ pc' = "step"]_vars


\* after a resize request with valid dimensions: the new buffers are live (the
\* loop goes on, both buffers have the new size, the active one is seeded) ...
NewBuffersLive ==
    /\ pc # "exit"
    /\ GRID_WIDTH = lastOp.args[2].width /\ GRID_HEIGHT = lastOp.args[2].height
    /\ gridWidth = GRID_WIDTH /\ gridHeight = GRID_HEIGHT
    /\ \A i \in 0 .. 1 : DOMAIN textures[i] = Cells(GRID_WIDTH, GRID_HEIGHT)
    /\ \A c \in Cells(GRID_WIDTH, GRID_HEIGHT) : Active[c] \in {0, 1}

\* ... or the old grid is intact: the renderer is the one before the request and
\* GameOfLife holds the old dimensions
OldGridIntact ==
    /\ Rend = pre
    /\ gridWidth = pre.GRID_WIDTH /\ gridHeight = pre.GRID_HEIGHT

\* C20: a grid resize is all-or-nothing, also when the new framebuffer is not
\* complete and initFramebuffers throws: afterwards either both new buffers are
\* live, or the old buffers, the old dimensions (in Renderer and in GameOfLife)
\* and the old camera are intact.
C20_AllOrNothing == ResizeValid => (NewBuffersLive \/ OldGridIntact)


\* the buffers changed in this transition
BuffersChange == textures' # textures

-----------------------------------------------------------------------------
(* SpecGlider: the main loop with the stamping keys, the resize key, the     *)
(* left mouse button and the cursor.  The run is picked up with the input    *)
(* handler in any stamping mode and rotation (each is reached from the       *)
(* constructed state by presses of G and T).                                 *)

GliderGrids == {<<4, 4>>}
GliderKeys == {"G", "T", "N", "C"}

\* the contents the grid holds when the run is picked up: none alive, and a 2x2
\* block (which the steps keep)
GliderData(W, H) == {[c \in Cells(W, H) |-> 0], BlockAt(W, H, 0, 0)}

InitGlider ==
    /\ \E g \in GliderGrids : \E data \in GliderData(g[1], g[2]) :
          SetInit(randomizeWith(
              NewRenderer(LoopWindow[1], LoopWindow[2], g[1], g[2]), data))
    /\ isPaused = FALSE
    /\ limitSpeed = TRUE
    /\ updatesPerSecond = QInt(30)
    /\ timeOfLastUpdate = Zero
    /\ currentTime = Zero
    /\ gridWidth = GRID_WIDTH
    /\ gridHeight = GRID_HEIGHT
    /\ mousePosition = <<Zero, Zero>>
    /\ isLeftMouseDrag = FALSE
    /\ isRightMouseButtonPressed = FALSE
    /\ lastMouseX = Zero
    /\ lastMouseY = Zero
    /\ isGliderMode \in BOOLEAN
    /\ gliderRotation \in 0 .. 3
    /\ keys = {}
    /\ keysProcessed = {}
    /\ pc = "poll"
    /\ grid = <<>>
    /\ frame = <<>>
    /\ lastOp = [name |-> "randomizeBoard", args |-> <<>>]
    /\ nOps = 0
    /\ twin = <<>>

\* key_callback, action GLFW_PRESS, for a stamping key that is not held
GliderKeyPress ==
    /\ pc = "poll"
    /\ nOps < MaxOps
    /\ Cardinality(keys) < MaxHeld
    /\ \E key \in GliderKeys \ keys :
          /\ keys' = keys \cup {key}
          /\ keysProcessed' = keysProcessed \ {key}
    /\ nOps' = nOps + 1
    /\ UNCHANGED <<rendVars, ctlVars, mousePosition, isLeftMouseDrag,
                   isRightMouseButtonPressed, lastMouseX, lastMouseY, isGliderMode,
                   gliderRotation, loopVars, lastOp, pre, twin>>

NextGlider ==
    \/ GliderKeyPress
    \/ KeyRelease
    \/ CtlScroll
    \/ MouseButton
    \/ CursorPos
    \/ PollDone
    \/ CtlProcessInput
    \/ CtlRunStep
    \/ CtlSkipStep
    \/ Draw

SpecGlider == InitGlider /\ [][NextGlider]_vars


\* this transition is a processInput that handles a rotate request (T newly
\* pressed) and returns
RotateRequest == pc = "input" /\ pc' = "step" /\ wasKeyPressed("T")

\* C22 (as stated): the rotation is in 0..3, every rotate request advances it by
\* one modulo 4, and nothing else changes it.
C22_EveryRequestRotates ==
    [][/\ gliderRotation' \in 0 .. 3
       /\ RotateRequest => gliderRotation' = (gliderRotation + 1) % 4
       /\ ~RotateRequest => gliderRotation' = gliderRotation]_vars

\* C22 (amended): the rotation is in 0..3; a rotate request handled while glider
\* mode is on (after the G of the same processInput, if any) advances it by one
\* modulo 4, one handled while glider mode is off leaves it unchanged; nothing
\* else changes it: drawing, stamping, stepping, clearing, resizing and toggling
\* glider mode leave it as it is.
C22_RotationState ==
    [][/\ gliderRotation' \in 0 .. 3
       /\ RotateRequest =>
             gliderRotation' = IF isGliderMode' THEN (gliderRotation + 1) % 4
                               ELSE gliderRotation
       /\ ~RotateRequest => gliderRotation' = gliderRotation]_vars

\* a rotate request in glider mode has taken the rotation from 3 back to 0
C22_Witness ==
    /\ lastOp.name = "processInput"
    /\ pc = "step"
    /\ "T" \in keys /\ "T" \in keysProcessed
    /\ nOps = 1
    /\ isGliderMode
    /\ gliderRotation = 0
    /\ currentTextureIndex = 0
    /\ currentTime = Zero


\* this transition is a processInput that handles a clear request (C newly
\* pressed) and nothing else: no other key is newly pressed and the left button
\* is up
ClearRequest == pc = "input" /\ pc' = "step" /\ Pressed = {"C"} /\ ~isLeftMouseDrag

\* C23: after a clear every cell of the active buffer is dead, whatever it held
\* and whichever buffer is active; the active index, the inactive buffer, the
\* grid dimensions, the camera and the Paused/Running state are unchanged.
C23_Clear ==
    [][ClearRequest =>
          /\ textures'[currentTextureIndex] =
                [c \in Cells(GRID_WIDTH, GRID_HEIGHT) |-> 0]
          /\ textures'[1 - currentTextureIndex] = textures[1 - currentTextureIndex]
          /\ UNCHANGED <<currentTextureIndex, GRID_WIDTH, GRID_HEIGHT>>
          /\ UNCHANGED <<panX, panY, zoom, maxZoom>>
          /\ UNCHANGED isPaused]_vars

\* buffer 1, active after a step and holding the block, has been cleared with the
\* camera zoomed; buffer 0 still holds the block
C23_Witness ==
    /\ lastOp.name = "processInput"
    /\ pc = "step"
    /\ "C" \in keys /\ "C" \in keysProcessed
    /\ currentTextureIndex = 1
    /\ Live(PreActive) # {}
    /\ Live(Active) = {}
    /\ Live(textures[0]) # {}
    /\ zoom # One


\* C24: for every grid size and every content of cells 0 or 1, the generation the
\* step of the renderer computes with compute.frag (nine cells summed, the centre
\* subtracted) is the one update_grid_logic of game.cpp computes on the CPU and
\* the one the shader of game_gpu.cpp (centre skipped) computes.
C24_StepsAgree ==
    (StepDone /\ AllWritten(PreActive)) =>
        /\ Active = update_grid_logic(PreActive, GRID_WIDTH, GRID_HEIGHT)
        /\ Active = [c \in Cells(GRID_WIDTH, GRID_HEIGHT) |->
                        computeFragmentShaderSource(PreActive, GRID_WIDTH, GRID_HEIGHT,
                                                    c[1], c[2])]

\* a step on a 2x3 torus, where a cell meets the same neighbour through several
\* offsets, that changed the content and left cells alive
C24_Witness ==
    /\ StepDone
    /\ GRID_WIDTH = 2 /\ GRID_HEIGHT = 3
    /\ AllWritten(PreActive)
    /\ Active # PreActive
    /\ Live(Active) # {}
    /\ Live(PreActive) # Cells(2, 3)


-----------------------------------------------------------------------------
(* The mouse input of game_gpu.cpp, the single-file version: its globals   *)
(* (window size, camera, textures, active index, grid size, button and     *)
(* stamping state) are the variables of the same names.  The cursor sits   *)
(* on a pixel centre; a behaviour is a run of button and cursor events     *)
(* followed by one handleMouseInput of the loop.                           *)

CellGrid == <<4, 4>>

\* the cursor positions glfw reports: centres of the four top-left pixels
CellPoints == {<<Q(2 * i + 1, 2), Q(2 * j + 1, 2)>> : i \in 0 .. 1, j \in 0 .. 1}

\* game_gpu.cpp handleMouseInput: the texture coordinate of the cursor
texCoord(r, mousePos) ==
    <<QAdd(QDiv(QDiv(mousePos[1], QInt(r.windowWidth)), r.zoom), r.panX),
      QAdd(QDiv(QDiv(QSub(QInt(r.windowHeight), mousePos[2]), QInt(r.windowHeight)),
                r.zoom), r.panY)>>

\* game_gpu.cpp handleMouseInput: gridX and gridY, static_cast<int> of the
\* product (conversion of a float to int truncates toward zero)
inputGridCell(r, mousePos) ==
    LET t == texCoord(r, mousePos)
    IN  <<QTrunc(QMul(t[1], QInt(r.GRID_WIDTH))), QTrunc(QMul(t[2], QInt(r.GRID_HEIGHT)))>>

\* game_gpu.cpp handleMouseInput with the left button held: the textures it
\* leaves.  Nothing is rejected before the conversion; drawPattern reads the
\* global gliderRotation
handleMouseInput(r, mousePos, gliderMode, rotation) ==
    LET g == inputGridCell(r, mousePos)
    IN  IF gliderMode THEN drawPattern(r, g[1], g[2], gliderPattern, rotation)
        ELSE IF /\ g[1] >= 0 /\ g[1] < r.GRID_WIDTH
                /\ g[2] >= 0 /\ g[2] < r.GRID_HEIGHT
             THEN writeWhite(r, g[1], g[2])
             ELSE r

InitCell ==
    /\ \E data \in StampData(CellGrid[1], CellGrid[2]) :
          SetInit(randomizeWith(
              NewRenderer(StepWindow[1], StepWindow[2], CellGrid[1], CellGrid[2]), data))
    /\ isPaused = FALSE
    /\ limitSpeed = TRUE
    /\ updatesPerSecond = QInt(30)
    /\ timeOfLastUpdate = Zero
    /\ currentTime = Zero
    /\ gridWidth = GRID_WIDTH
    /\ gridHeight = GRID_HEIGHT
    /\ mousePosition \in CellPoints
    /\ isLeftMouseDrag = FALSE
    /\ isRightMouseButtonPressed = FALSE
    /\ lastMouseX = Zero
    /\ lastMouseY = Zero
    /\ isGliderMode \in BOOLEAN
    /\ gliderRotation = 0
    /\ keys = {}
    /\ keysProcessed = {}
    /\ pc = "poll"
    /\ grid = <<>>
    /\ frame = <<>>
    /\ lastOp = [name |-> "randomizeBoard", args |-> <<>>]
    /\ nOps = 0
    /\ twin = <<>>

\* game_gpu.cpp mouse_button_callback, left button: press or release
CellLeftButton ==
    /\ pc = "poll"
    /\ isLeftMouseDrag' = ~isLeftMouseDrag
    /\ UNCHANGED <<rendVars, ctlVars, mousePosition, isRightMouseButtonPressed,
                   lastMouseX, lastMouseY, isGliderMode, gliderRotation, keys,
                   keysProcessed, loopVars, lastOp, pre, nOps, twin>>

\* game_gpu.cpp mouse_button_callback, right button: a press stores the cursor
CellRightButton ==
    /\ pc = "poll"
    /\ isRightMouseButtonPressed' = ~isRightMouseButtonPressed
    /\ IF ~isRightMouseButtonPressed
       THEN lastMouseX' = mousePosition[1] /\ lastMouseY' = mousePosition[2]
       ELSE UNCHANGED <<lastMouseX, lastMouseY>>
    /\ UNCHANGED <<rendVars, ctlVars, mousePosition, isLeftMouseDrag, isGliderMode,
                   gliderRotation, keys, keysProcessed, loopVars, lastOp, pre, nOps,
                   twin>>

\* game_gpu.cpp cursor_position_callback: the cursor moves; with the right
\* button held the camera pans and the stored position follows
CellCursor ==
    /\ pc = "poll"
    /\ nOps < MaxOps
    /\ \E p \in CellPoints :
          /\ p # mousePosition
          /\ mousePosition' = p
          /\ IF isRightMouseButtonPressed
             THEN /\ SetRend(pan(Rend, QSub(p[1], lastMouseX), QSub(p[2], lastMouseY)))
                  /\ lastMouseX' = p[1]
                  /\ lastMouseY' = p[2]
             ELSE UNCHANGED <<rendVars, lastMouseX, lastMouseY>>
    /\ nOps' = nOps + 1
    /\ UNCHANGED <<ctlVars, isLeftMouseDrag, isRightMouseButtonPressed, isGliderMode,
                   gliderRotation, keys, keysProcessed, loopVars, lastOp, pre, twin>>

\* game_gpu.cpp handleMouseInput, called by the loop after glfwPollEvents
CellMouseInput ==
    /\ pc = "poll"
    /\ IF isLeftMouseDrag
       THEN /\ SetRend(handleMouseInput(Rend, mousePosition, isGliderMode, gliderRotation))
            /\ isLeftMouseDrag' = (IF isGliderMode THEN FALSE ELSE isLeftMouseDrag)
       ELSE UNCHANGED <<rendVars, isLeftMouseDrag>>
    /\ Hist("handleMouseInput", <<isLeftMouseDrag, mousePosition>>)
    /\ pc' = "done"
    /\ UNCHANGED <<ctlVars, mousePosition, isRightMouseButtonPressed, lastMouseX,
                   lastMouseY, isGliderMode, gliderRotation, keys, keysProcessed, grid,
                   frame, nOps, twin>>

NextCell ==
    \/ CellLeftButton
    \/ CellRightButton
    \/ CellCursor
    \/ CellMouseInput

SpecCell == InitCell /\ [][NextCell]_vars

\* C25: the mouse-to-grid conversion selects floor(textureUV * gridSize) on each
\* axis for every texture coordinate it does not reject, negative ones included:
\* after a call with the button held, the buffers are those before the call with
\* the cell (or the glider centred on the cell) of the floored coordinate drawn,
\* and nothing is drawn for a cell outside the grid.
C25_FloorCell ==
    (pc = "done" /\ lastOp.name = "handleMouseInput" /\ lastOp.args[1]) =>
        LET t == texCoord(pre, lastOp.args[2])
            gx == QFloor(QMul(t[1], QInt(pre.GRID_WIDTH)))
            gy == QFloor(QMul(t[2], QInt(pre.GRID_HEIGHT)))
        IN  Rend = IF isGliderMode
                   THEN drawPattern(pre, gx, gy, gliderPattern, gliderRotation)
                   ELSE IF gx \in 0 .. pre.GRID_WIDTH - 1 /\ gy \in 0 .. pre.GRID_HEIGHT - 1
                        THEN writeWhite(pre, gx, gy)
                        ELSE pre


-----------------------------------------------------------------------------
(* The main loop with the left button and the stamping keys, the cursor at  *)
(* rest.  The button events are recorded in lastOp, so that at processInput *)
(* lastOp tells whether a button event came after the previous tick.        *)

HoldPoints == {<<Zero, Zero>>, <<One, One>>}

InitHold ==
    /\ \E g \in GliderGrids : \E data \in GliderData(g[1], g[2]) :
          SetInit(randomizeWith(
              NewRenderer(LoopWindow[1], LoopWindow[2], g[1], g[2]), data))
    /\ isPaused = FALSE
    /\ limitSpeed = TRUE
    /\ updatesPerSecond = QInt(30)
    /\ timeOfLastUpdate = Zero
    /\ currentTime = Zero
    /\ gridWidth = GRID_WIDTH
    /\ gridHeight = GRID_HEIGHT
    /\ mousePosition \in HoldPoints
    /\ isLeftMouseDrag = FALSE
    /\ isRightMouseButtonPressed = FALSE
    /\ lastMouseX = mousePosition[1]
    /\ lastMouseY = mousePosition[2]
    /\ isGliderMode \in BOOLEAN
    /\ gliderRotation \in 0 .. 3
    /\ keys = {}
    /\ keysProcessed = {}
    /\ pc = "poll"
    /\ grid = <<>>
    /\ frame = <<>>
    /\ lastOp = [name |-> "randomizeBoard", args |-> <<>>]
    /\ nOps = 0
    /\ twin = <<>>

\* mouse_button_callback for the left button: a press when it is up, a release
\* when it is down
HoldButton ==
    /\ pc = "poll"
    /\ nOps < MaxOps
    /\ isLeftMouseDrag' = ~isLeftMouseDrag
    /\ Hist("mouse_button_callback", <<~isLeftMouseDrag>>)
    /\ nOps' = nOps + 1
    /\ UNCHANGED <<rendVars, ctlVars, mousePosition, isRightMouseButtonPressed,
                   lastMouseX, lastMouseY, isGliderMode, gliderRotation, keys,
                   keysProcessed, loopVars, twin>>

NextHold ==
    \/ GliderKeyPress
    \/ KeyRelease
    \/ HoldButton
    \/ PollDone
    \/ CtlProcessInput
    \/ CtlRunStep
    \/ CtlSkipStep
    \/ Draw

SpecHold == InitHold /\ [][NextHold]_vars

\* this transition is a processInput with the button held since before the
\* previous processInput, in glider mode then and now, the cursor over the grid:
\* the last recorded operation is the previous tick's processInput or step, so no
\* button event came in between, and the previous processInput stamped a glider
HeldTick ==
    /\ pc = "input" /\ pc' = "step"
    /\ lastOp.name \in {"processInput", "runSimulationStep"}
    /\ isLeftMouseDrag
    /\ isGliderMode /\ isGliderMode'
    /\ ~mouseRejected(Rend, mousePosition)

\* C26: in glider mode one left-button press stamps at most one glider: a tick
\* that finds the button still held after a tick that stamped does not stamp
\* again, so unless it clears or resizes the board it leaves the buffers as they
\* are, paused or running.
C26_OneGliderPerPress ==
    [][(HeldTick /\ ~wasKeyPressed("C") /\ ~wasKeyPressed("N")) => textures' = textures]_vars

-----------------------------------------------------------------------------
(* The window callbacks: framebuffer_size_callback with the sizes glfw      *)
(* delivers, 0 x 0 for a minimised window included, and scroll_callback.    *)

WinGrid == <<2, 1>>
WinSizes == {<<0, 0>>, <<4, 4>>, <<8, 4>>}
WinPoints == {<<Zero, Zero>>, <<One, One>>, <<QInt(3), QInt(2)>>}
WinFactors == {<<11, 10>>, <<10, 11>>}

\* what a float holds after a division by a zero window dimension has reached
\* it: x / 0 is an infinity or a NaN, and the difference of two of them is a NaN
NaN == <<0, 0>>

\* Renderer::zoomAt for any window size: with a zero width or height both
\* texX_before and texX_after are infinities of the same sign or NaNs, so pan
\* receives a NaN; a NaN already in pan stays
zoomAtAnyWindow(r, screenX, screenY, zoomFactor) ==
    IF r.windowWidth = 0 \/ r.windowHeight = 0 \/ r.panX = NaN \/ r.panY = NaN
    THEN [r EXCEPT !.zoom = QMax(MinZoom, QMin(QMul(r.zoom, zoomFactor), r.maxZoom)),
                   !.panX = NaN, !.panY = NaN]
    ELSE zoomAt(r, screenX, screenY, zoomFactor)

InitWin ==
    /\ \E data \in RandomData(WinGrid[1], WinGrid[2]) :
          SetInit(randomizeWith(
              NewRenderer(LoopWindow[1], LoopWindow[2], WinGrid[1], WinGrid[2]), data))
    /\ InitMembers
    /\ pc = "poll"
    /\ grid = <<>>
    /\ frame = <<>>
    /\ lastOp = [name |-> "randomizeBoard", args |-> <<>>]
    /\ nOps = 0
    /\ twin = <<>>

\* framebuffer_size_callback: renderer.onWindowResize(width, height), unchecked
WinResize ==
    /\ pc = "poll"
    /\ nOps < MaxOps
    /\ \E win \in WinSizes \ {<<windowWidth, windowHeight>>} :
          /\ SetRend(onWindowResize(Rend, win[1], win[2]))
          /\ Hist("onWindowResize", win)
    /\ nOps' = nOps + 1
    /\ UNCHANGED <<ctlVars, inputVars, loopVars, twin>>

\* scroll_callback: renderer.zoomAt at the cursor
WinScroll ==
    /\ pc = "poll"
    /\ nOps < MaxOps
    /\ \E p \in WinPoints : \E f \in WinFactors :
          /\ SetRend(zoomAtAnyWindow(Rend, p[1], p[2], f))
          /\ Hist("zoomAt", <<p, f>>)
    /\ nOps' = nOps + 1
    /\ UNCHANGED <<ctlVars, inputVars, loopVars, twin>>

NextWin ==
    \/ WinResize
    \/ WinScroll

SpecWin == InitWin /\ [][NextWin]_vars

\* C27: window width and height are >= 1 in every reachable state, after any
\* sequence of resize events (0 x 0 for a minimised window included), so no
\* camera operation divides by a zero window dimension and pan never receives
\* the result of such a division.
C27_WindowPositive ==
    /\ windowWidth >= 1
    /\ windowHeight >= 1
    /\ panX # NaN
    /\ panY # NaN


-----------------------------------------------------------------------------
(* The main loop with every key processInput polls.  key_callback is        *)
(* delivered GLFW_PRESS for a key that is up, GLFW_REPEAT for a key that is *)
(* held and GLFW_RELEASE for a key that is down; the loop runs any number   *)
(* of ticks between two events.                                             *)

\* key_callback, action GLFW_PRESS, for a polled key that is not held
KeysPress ==
    /\ pc = "poll"
    /\ nOps < MaxOps
    /\ Cardinality(keys) < MaxHeld
    /\ \E key \in PolledKeys \ keys :
          /\ keys' = keys \cup {key}
          /\ keysProcessed' = keysProcessed \ {key}
    /\ nOps' = nOps + 1
    /\ UNCHANGED <<rendVars, ctlVars, mousePosition, isLeftMouseDrag,
                   isRightMouseButtonPressed, lastMouseX, lastMouseY, isGliderMode,
                   gliderRotation, loopVars, lastOp, pre, twin>>

\* key_callback, action GLFW_REPEAT, for a held key: neither branch is taken
KeysRepeat ==
    /\ pc = "poll"
    /\ nOps < MaxOps
    /\ keys # {}
    /\ nOps' = nOps + 1
    /\ UNCHANGED <<rendVars, ctlVars, inputVars, loopVars, lastOp, pre, twin>>

InitKeys ==
    /\ \E g \in CtlGrids :
          SetInit(randomizeWith(NewRenderer(LoopWindow[1], LoopWindow[2], g[1], g[2]),
                                [c \in Cells(g[1], g[2]) |-> 1]))
    /\ isPaused = FALSE
    /\ limitSpeed = TRUE
    /\ updatesPerSecond = QInt(30)
    /\ timeOfLastUpdate = Zero
    /\ currentTime = Zero
    /\ gridWidth = GRID_WIDTH
    /\ gridHeight = GRID_HEIGHT
    /\ mousePosition = <<Zero, Zero>>
    /\ isLeftMouseDrag = FALSE
    /\ isRightMouseButtonPressed = FALSE
    /\ lastMouseX = Zero
    /\ lastMouseY = Zero
    /\ isGliderMode \in BOOLEAN
    /\ gliderRotation = 0
    /\ keys = {}
    /\ keysProcessed = {}
    /\ pc = "poll"
    /\ grid = <<>>
    /\ frame = <<>>
    /\ lastOp = [name |-> "randomizeBoard", args |-> <<>>]
    /\ nOps = 0
    /\ twin = <<>>

NextKeys ==
    \/ KeysPress
    \/ KeysRepeat
    \/ KeyRelease
    \/ PollDone
    \/ CtlProcessInput
    \/ CtlRunStep
    \/ CtlSkipStep
    \/ Draw

SpecKeys == InitKeys /\ [][NextKeys]_vars

\* the key is down and its press has not been handled by a processInput
Fresh(key) == key \in keys /\ key \notin keysProcessed

\* this transition is a processInput that returned
InputTick == pc = "input" /\ pc' = "step"

\* C28: key edge detection for the ten polled keys.  A key becomes fresh only by
\* a press event that finds it up (so after a release), every processInput
\* leaves no polled key fresh, and a processInput fires the action of a key
\* exactly when it finds the key fresh: K flips the limit (unless the prompt of a
\* fresh S sets it afterwards), G flips glider mode, S and N reach their prompts,
\* and the rotation, the speed, the pause state and the renderer change only for
\* a fresh T, Up/Down/S, SPACE/S/N, C/R/N.  A key held over many ticks therefore
\* fires once.
C28_KeyEdges ==
    [][/\ \A key \in PolledKeys :
            /\ (~Fresh(key) /\ Fresh(key)') => (pc = "poll" /\ key \notin keys /\ key \in keys')
            /\ (pc = "input" /\ pc' # "input") => ~Fresh(key)'
       /\ InputTick =>
            /\ (~Fresh("S")) =>
                  limitSpeed' = (IF Fresh("K") THEN ~limitSpeed ELSE limitSpeed)
            /\ isGliderMode' = (IF Fresh("G") THEN ~isGliderMode ELSE isGliderMode)
            /\ gliderRotation' = (IF Fresh("T") /\ isGliderMode'
                                  THEN (gliderRotation + 1) % 4 ELSE gliderRotation)
            /\ (lastOp'.args[1] # NoInput) = Fresh("S")
            /\ (lastOp'.args[2] # NoInput) = Fresh("N")
            /\ (~Fresh("S")) =>
                  updatesPerSecond' =
                      QMul(updatesPerSecond,
                           QDiv(IF Fresh("UP") THEN Q(3, 2) ELSE One,
                                IF Fresh("DOWN") THEN Q(3, 2) ELSE One))
            /\ (~Fresh("S") /\ ~Fresh("N")) =>
                  isPaused' = (IF Fresh("SPACE") THEN ~isPaused ELSE isPaused)
            /\ (~Fresh("C") /\ ~Fresh("R") /\ ~Fresh("N") /\ ~isLeftMouseDrag) =>
                  UNCHANGED rendVars
            /\ (Fresh("C") /\ ~Fresh("R") /\ ~isLeftMouseDrag) =>
                  \A c \in Cells(GRID_WIDTH', GRID_HEIGHT') : Active'[c] = 0
      ]_vars

\* K was pressed before the first tick and is still held in the second: the
\* first tick turned the limit off (the step at 1/60 s ran although the interval
\* of 1/30 s had not elapsed), the second processInput has run and did not flip
\* it back
C28_Witness ==
    /\ pc = "step"
    /\ lastOp.name = "processInput"
    /\ nOps = 1
    /\ keys = {"K"}
    /\ keysProcessed = {"K"}
    /\ limitSpeed = FALSE
    /\ currentTime = Q(1, 60)
    /\ timeOfLastUpdate = Q(1, 60)


-----------------------------------------------------------------------------
(* The key arrays by key code.  keys and keysProcessed hold the codes whose *)
(* array element is true; key_callback is delivered the codes glfw passes,  *)
(* GLFW_KEY_UNKNOWN (-1) for a key it has no code for.                      *)

\* the size of keys[] and keysProcessed[]
KeyArraySize == 1024

\* GLFW_KEY_UNKNOWN, GLFW_KEY_SPACE, GLFW_KEY_C, GLFW_KEY_G, GLFW_KEY_T and
\* GLFW_KEY_LAST
RawKeyCodes == {-1, 32, 67, 71, 84, 348}

\* the codes of RawKeyCodes that processInput passes to wasKeyPressed
RawPolledCodes == {32, 67, 71, 84}

RawActions == {"GLFW_PRESS", "GLFW_REPEAT", "GLFW_RELEASE"}

\* key_callback: the indices at which it accesses keys[] and keysProcessed[]
key_callbackIndices(key, action) ==
    IF action \in {"GLFW_PRESS", "GLFW_RELEASE"} THEN {key} ELSE {}

InitRaw ==
    /\ \E data \in RandomData(WinGrid[1], WinGrid[2]) :
          SetInit(randomizeWith(
              NewRenderer(LoopWindow[1], LoopWindow[2], WinGrid[1], WinGrid[2]), data))
    /\ InitMembers
    /\ pc = "poll"
    /\ grid = <<>>
    /\ frame = <<>>
    /\ lastOp = [name |-> "randomizeBoard", args |-> <<>>]
    /\ nOps = 0
    /\ twin = <<>>

\* key_callback(window, key, scancode, action, mods).  A press comes for a key
\* that is up, a repeat or a release for a key that is down; the unknown key has
\* no element that could tell.  An access outside the arrays is undefined
\* behaviour: keys[-1] is the last byte of the reference member declared before
\* keys, keysProcessed[-1] is keys[1023]; the program goes on or ends (pc = exit)
RawKey ==
    /\ pc = "poll"
    /\ nOps < MaxOps
    /\ \E key \in RawKeyCodes : \E action \in RawActions :
          /\ key \in 0 .. KeyArraySize - 1 =>
                (action = "GLFW_PRESS") = (key \notin keys)
          /\ IF key_callbackIndices(key, action) \subseteq 0 .. KeyArraySize - 1
             THEN /\ keys' = (IF action = "GLFW_PRESS" THEN keys \cup {key}
                              ELSE IF action = "GLFW_RELEASE" THEN keys \ {key}
                              ELSE keys)
                  /\ keysProcessed' = (IF action = "GLFW_REPEAT" THEN keysProcessed
                                       ELSE keysProcessed \ {key})
                  /\ pc' = "poll"
             ELSE /\ keys' = keys \ {KeyArraySize - 1}
                  /\ keysProcessed' = keysProcessed
                  /\ pc' \in {"poll", "exit"}
          /\ lastOp' = [name |-> "key_callback",
                        args |-> <<key, action, key_callbackIndices(key, action)>>]
    /\ pre' = Rend
    /\ nOps' = nOps + 1
    /\ UNCHANGED <<rendVars, ctlVars, mousePosition, isLeftMouseDrag,
                   isRightMouseButtonPressed, lastMouseX, lastMouseY, isGliderMode,
                   gliderRotation, grid, frame, twin>>

\* InputHandler::wasKeyPressed(key), called by processInput with a key constant
RawWasKeyPressed ==
    /\ pc = "poll"
    /\ \E key \in RawPolledCodes :
          /\ keysProcessed' = (IF wasKeyPressed(key) THEN keysProcessed \cup {key}
                               ELSE keysProcessed)
          /\ lastOp' = [name |-> "wasKeyPressed", args |-> <<key, "call", {key}>>]
    /\ pre' = Rend
    /\ UNCHANGED <<rendVars, ctlVars, mousePosition, isLeftMouseDrag,
                   isRightMouseButtonPressed, lastMouseX, lastMouseY, isGliderMode,
                   gliderRotation, keys, loopVars, nOps, twin>>

NextRaw ==
    \/ RawKey
    \/ RawWasKeyPressed

SpecRaw == InitRaw /\ [][NextRaw]_vars

\* C29: every access to keys[] and keysProcessed[] uses an index in 0..1023, for
\* every key code delivered to key_callback on a press or release event (the
\* unknown key -1 included) and every call of wasKeyPressed.
C29_IndexInRange ==
    lastOp.name \in {"key_callback", "wasKeyPressed"} =>
        \A i \in lastOp.args[3] : i \in 0 .. KeyArraySize - 1


\* C30: whenever a buffer is read by a step or by rendering, all W x H of its
\* cells have been written since it was allocated and each holds 0 or 1: the
\* active buffer when the loop is about to step or to draw, the buffer the last
\* step read, and what the last drawToScreen sampled.
C30_WrittenWhenRead ==
    /\ pc \in {"step", "draw"} => Active \in [Cells(GRID_WIDTH, GRID_HEIGHT) -> {0, 1}]
    /\ StepDone => PreActive \in [Cells(pre.GRID_WIDTH, pre.GRID_HEIGHT) -> {0, 1}]
    /\ frame # <<>> => \A c \in DOMAIN frame : frame[c] \in {0, 1}

\* a frame drawn after a resize that followed a step: the buffers were
\* reallocated as 2x1, the inactive one has not been written since, and the
\* frame shows the active one, with a live cell
C30_Witness ==
    /\ pc = "poll"
    /\ GRID_WIDTH = 2 /\ GRID_HEIGHT = 1
    /\ currentTextureIndex = 1
    /\ \A c \in Cells(2, 1) : textures[0][c] = Unwritten
    /\ frame = textures[1]
    /\ \E c \in Cells(2, 1) : frame[c] = 1

====
